---- MODULE Spec2Model ----
(***************************************************************************)
(* Building Colorizer (src/semantic_mapping.py): the per-face semantic     *)
(* classification of a building mesh, the ground level estimator, the      *)
(* neighbour smoothing rule and the OBJ rewriter.                          *)
(*                                                                         *)
(* Lengths are integers counted in units of 1/Scale.  Vertex coordinates   *)
(* are multiples of Step = 1/64, which are exact as IEEE doubles, so that  *)
(* the sums, differences and cross products the code computes on them are  *)
(* exact and every comparison below decides as the floating point one      *)
(* does.  The one floating point product that does not behave as the real  *)
(* one, len(neighbors) * 0.7, is modelled bit-exactly (ExceedsSeventyPct). *)
(* Sequences are 1-based: face index k of the code is k + 1 here.          *)
(***************************************************************************)
EXTENDS Integers, Sequences, FiniteSets, TLC

VARIABLES
    vertices,               \* process_mesh: the loaded vertex array
    faces,                  \* process_mesh: the loaded face list
    ground_height,          \* process_mesh / analyze_z_distribution result
    face_index,             \* process_mesh: create_spatial_index result
    face_idx,               \* process_mesh: loop variable (next face to classify)
    neighbors,              \* the neighbour list passed to classify_face_with_context
    classifications,        \* process_mesh: the label list / update_obj_file argument
    classification_cache,   \* BuildingColorizer.classification_cache
    classification_changes, \* BuildingColorizer.stats['classification_changes']
    base_class,             \* classify_face_with_context: the rule-based label
    face_type,              \* classify_face_with_context: the returned label
    z_values,               \* analyze_z_distribution: the elevation list
    src,                    \* update_obj_file: the lines of the file opened for reading
    src_pos,                \* update_obj_file: the number of lines read from src
    dst,                    \* update_obj_file: the lines of the temporary file, if it exists
    obj_file,               \* the lines of the file at obj_path
    current_material,       \* update_obj_file: the material of the last face written
    failed_files,           \* BuildingColorizer.stats['failed_files']
    processed_files,        \* BuildingColorizer.stats['processed_files']
    building_outlines,      \* BuildingColorizer.building_outlines
    obj_dir,                \* the contents of the *.obj files of obj_dir, in glob order
    dir_pos,                \* process_all_buildings: the file the loop is at
    mtl_file,               \* the lines of <stem>.mtl of the current file, if it exists
    warnings,               \* load_obj_file: the warnings printed for the current file
    results,                \* the label lists process_mesh has returned, by file
    summary,                \* print_summary: the figures printed
    root_exists,            \* copy_and_rename_csv_advanced: root_path.exists()
    root_files,             \* the files directly in the root directory, by name
    sources,                \* <root>/F/<target_subdir>/<csv_filename>, by folder F
    to_visit,               \* the folders root_path.iterdir() has not yielded yet
    overwrite,              \* copy_and_rename_csv_advanced: argument
    backup,                 \* copy_and_rename_csv_advanced: argument
    copy_results,           \* copy_and_rename_csv_advanced: the results dict
    gml_dir,                \* lod2merge: the documents of the input directory, by file name
    valid_files,            \* merge_files: the names of the validated files
    merge_pos,              \* create_merged_citygml: the number of files handled
    city_objects,           \* create_merged_citygml: the copied city objects
    all_bounds,             \* create_merged_citygml: the bounds collected
    merged_bounds,          \* calculate_merged_bounds: the returned box
    output_name,            \* merge_files: argument, also the id prefix
    output_file,            \* the document at the output path, if written
    exit_status,            \* the status the process exited with, if it has
    kota_codes,             \* OBJToCSVGenerator.kota_codes
    kecamatan_codes,        \* OBJToCSVGenerator.kecamatan_codes
    nib_args,               \* generate_nib: kota, kecamatan, centroid_x, centroid_y
    nib,                    \* generate_nib: the returned string
    file_set,               \* main: the list find_complete_sets returned
    set_index,              \* main: the number of file sets the loop has started
    step_no,                \* main: the step of the current file set
    step_log,               \* the steps started and returned, in order
    returncode,             \* run_subprocess_with_capture: the last value returned
    directories,            \* the working directories of the current folder that exist
    output_capture,         \* OutputCapture: is the log open, is stdout redirected
    pbar,                   \* the tqdm progress bar
    final_summary,          \* main: have lines 188-191 been printed
    raised,                 \* the exception main has raised, if any
    pc                      \* position of the running operation

meshVars == <<vertices, faces, face_index>>
smoothVars == <<neighbors, classification_cache, classification_changes,
                base_class, face_type>>
groundVars == <<ground_height, z_values>>
fileVars == <<src, src_pos, dst, obj_file, current_material, failed_files>>

batchVars == <<processed_files, building_outlines, obj_dir, dir_pos, mtl_file, warnings,
               results, summary>>
copyVars == <<root_exists, root_files, sources, to_visit, overwrite, backup, copy_results>>
mergeVars == <<gml_dir, valid_files, merge_pos, city_objects, all_bounds, merged_bounds,
               output_name, output_file, exit_status>>
nibVars == <<kota_codes, kecamatan_codes, nib_args, nib>>
mainVars == <<file_set, set_index, step_no, step_log, returncode, directories,
              output_capture, pbar, final_summary, raised>>
toolVars == <<copyVars, mergeVars, nibVars, mainVars>>
notCopyVars == <<mergeVars, nibVars, mainVars>>
notMergeVars == <<copyVars, nibVars, mainVars>>
notNibVars == <<copyVars, mergeVars, mainVars>>
notMainVars == <<copyVars, mergeVars, nibVars>>
colorizerVars == <<meshVars, smoothVars, groundVars, fileVars, batchVars, face_idx,
                   classifications>>
vars == <<colorizerVars, toolVars, pc>>

----------------------------------------------------------------------------
(* Units and program constants *)

Scale == 64 * 50
Step == Scale \div 64
Tolerance == Scale \div 100
CellSize == Scale \div 2
HalfUnit == Scale \div 2
NumBins == 50
HorizontalNum == 19
HorizontalDen == 20
VerticalNum == 1
VerticalDen == 10
Labels == {"Roof", "Wall", "Ground"}
NoLabel == "none"

----------------------------------------------------------------------------
(* Arithmetic helpers *)

Abs(x) == IF x < 0 THEN -x ELSE x

RECURSIVE Gcd(_, _)
Gcd(a, b) == IF b = 0 THEN Abs(a) ELSE Gcd(Abs(b), Abs(a) % Abs(b))

RECURSIVE SumSeq(_)
SumSeq(s) == IF s = <<>> THEN 0 ELSE Head(s) + SumSeq(Tail(s))

Range(s) == {s[i] : i \in DOMAIN s}

MinOf(S) == CHOOSE x \in S : \A y \in S : x <= y
MaxOf(S) == CHOOSE x \in S : \A y \in S : x >= y

Count(s, x) == Cardinality({i \in DOMAIN s : s[i] = x})

----------------------------------------------------------------------------
(* MeshAnalyzer.analyze_z_distribution *)

\* np.histogram's range: (min, max), widened by 0.5 on both sides when equal
FirstEdge(zs) ==
    LET lo == MinOf(Range(zs))
        hi == MaxOf(Range(zs))
    IN  IF lo = hi THEN lo - HalfUnit ELSE lo

LastEdge(zs) ==
    LET lo == MinOf(Range(zs))
        hi == MaxOf(Range(zs))
    IN  IF lo = hi THEN hi + HalfUnit ELSE hi

\* bin_edges[i], i in 0..NumBins: np.linspace(first, last, NumBins + 1).
\* Elevations are multiples of Step, so the edges are whole units.
BinEdge(first, last, i) == first + (i * (last - first)) \div NumBins

\* the bucket a value is counted in: half-open buckets, the last one closed
BinOf(first, last, z) ==
    IF z = last THEN NumBins - 1
    ELSE ((z - first) * NumBins) \div (last - first)

\* hist: the number of values per bucket
Hist(zs) ==
    LET first == FirstEdge(zs)
        last == LastEdge(zs)
        bins == [k \in DOMAIN zs |-> BinOf(first, last, zs[k])]
    IN  [i \in 0 .. NumBins - 1 |-> Count(bins, i)]

\* count > significant_threshold, where significant_threshold is
\* max(hist) * 0.1.  The double 0.1 is above 1/10, so the double product is
\* never below peak/10, and is peak/10 rounded; an integer count exceeds it
\* iff count > peak/10.
SignificantMutGe(count, peak) == 10 * count >= peak
Significant(count, peak) == 10 * count > peak

\* the value returned for bucket i (line 47)
EdgeOfBucketMutRight(zs, i) == BinEdge(FirstEdge(zs), LastEdge(zs), i + 1)
EdgeOfBucket(zs, i) == BinEdge(FirstEdge(zs), LastEdge(zs), i)

analyze_z_distributionMutFootprint(zs) ==
    IF zs = <<>> THEN 0
    ELSE IF building_outlines # {} THEN MaxOf(Range(zs))
    ELSE LET hist == Hist(zs)
             peak == MaxOf(Range(hist))
             hits == {i \in DOMAIN hist : Significant(hist[i], peak)}
         IN  IF hits # {} THEN EdgeOfBucket(zs, MinOf(hits))
             ELSE MinOf(Range(zs))
analyze_z_distribution(zs) ==
    IF zs = <<>> THEN 0
    ELSE LET hist == Hist(zs)
             peak == MaxOf(Range(hist))
             hits == {i \in DOMAIN hist : Significant(hist[i], peak)}
         IN  IF hits # {} THEN EdgeOfBucket(zs, MinOf(hits))
             ELSE MinOf(Range(zs))

----------------------------------------------------------------------------
(* Geometry primitives *)

Cross(a, b) == <<a[2] * b[3] - a[3] * b[2],
                 a[3] * b[1] - a[1] * b[3],
                 a[1] * b[2] - a[2] * b[1]>>

Sub(a, b) == <<a[1] - b[1], a[2] - b[2], a[3] - b[3]>>

\* a vector scaled down to its primitive direction (normal / norm keeps it)
Direction(c) ==
    LET g == Gcd(c[1], Gcd(c[2], c[3]))
    IN  <<c[1] \div g, c[2] \div g, c[3] \div g>>

DegenerateNormal == <<0, 0, 1>>

\* GeometryValidator.get_face_normal: the direction of the unit normal
get_face_normal(vs, face) ==
    IF Len(face) < 3 THEN <<0, 0, 1>>
    ELSE LET normal == Cross(Sub(vs[face[2]], vs[face[1]]),
                             Sub(vs[face[3]], vs[face[1]]))
         IN  IF normal = <<0, 0, 0>> THEN DegenerateNormal
             ELSE Direction(normal)

NormSq(n) == n[1] * n[1] + n[2] * n[2] + n[3] * n[3]

\* abs(normal[2]) > num/den and abs(normal[2]) < num/den for the unit normal
\* along direction n (the zero vector stays the zero vector)
AbsZAbove(n, num, den) == den * den * n[3] * n[3] > num * num * NormSq(n)
AbsZBelow(n, num, den) ==
    IF NormSq(n) = 0 THEN TRUE
    ELSE den * den * n[3] * n[3] < num * num * NormSq(n)

\* sum of the face's vertex z coordinates (avg_z = FaceZSum / Len(face))
FaceZSum(vs, face) == SumSeq([i \in DOMAIN face |-> vs[face[i]][3]])

\* MeshAnalyzer.get_face_centroid, as the coordinate sums over Len(face)
get_face_centroid(vs, face) ==
    [k \in 1 .. 3 |-> SumSeq([i \in DOMAIN face |-> vs[face[i]][k]])]

\* tuple(np.floor(centroid / 0.5).astype(int))
CellKey(vs, face) ==
    LET c == get_face_centroid(vs, face)
    IN  [k \in 1 .. 3 |-> c[k] \div (Len(face) * CellSize)]

\* GeometryValidator.validate_ground_classification
validate_ground_classificationMutNoNormal(vs, face, gh) ==
    Abs(FaceZSum(vs, face) - Len(face) * gh) <= Len(face) * Tolerance
validate_ground_classification(vs, face, gh) ==
    IF Abs(FaceZSum(vs, face) - Len(face) * gh) > Len(face) * Tolerance
    THEN FALSE
    ELSE AbsZAbove(get_face_normal(vs, face), HorizontalNum, HorizontalDen)

\* classify_face_with_context, lines 238-243: the rule-based label
BaseClassMutCarry(vs, face, gh) ==
    IF processed_files > 0 THEN "Roof"
    ELSE IF validate_ground_classification(vs, face, gh) THEN "Ground"
    ELSE IF AbsZBelow(get_face_normal(vs, face), VerticalNum, VerticalDen) THEN "Wall"
    ELSE "Roof"
BaseClass(vs, face, gh) ==
    IF validate_ground_classification(vs, face, gh) THEN "Ground"
    ELSE IF AbsZBelow(get_face_normal(vs, face), VerticalNum, VerticalDen) THEN "Wall"
    ELSE "Roof"

----------------------------------------------------------------------------
(* Spatial index and neighbour lookup *)

\* create_spatial_index: grid cell key -> the faces (ascending) in that cell
create_spatial_index(vs, fs) ==
    [key \in {CellKey(vs, fs[i]) : i \in DOMAIN fs} |->
        SelectSeq([i \in DOMAIN fs |-> i], LAMBDA i : CellKey(vs, fs[i]) = key)]

\* get_neighboring_faces: the stub returns the empty list
get_neighboring_faces(idx, index) == <<>>

----------------------------------------------------------------------------
(* classify_face_with_context, lines 245-255: neighbour consistency *)

Pow2Floor(x) == CHOOSE p \in {2 ^ e : e \in 0 .. 30} : p <= x /\ x < 2 * p

\* Whether the double product n * 0.7 is below the real 7n/10.  The double
\* 0.7 is (7 * 2^53 - 4) / (10 * 2^53), so n * 0.7 is 7n/10 - (2n/5) / 2^53
\* before rounding.  Unless 10 divides n the nearest integer is at least
\* 1/10 away and rounding cannot matter to a comparison with an integer.
\* For n = 10k the exact product is 7k - k / 2^51, which rounds to the
\* double 7k iff k / 2^51 is at most half an ulp of 7k, i.e. 4k <= 2^e for
\* 2^e <= 7k < 2^(e+1) (a tie goes to 7k, whose mantissa is even).
ProductRoundsBelow(n) ==
    /\ n > 0
    /\ n % 10 = 0
    /\ 4 * (n \div 10) > Pow2Floor(7 * (n \div 10))

\* count > len(neighbors) * 0.7, for integers count and n
ExceedsSeventyPct(count, n) ==
    IF ProductRoundsBelow(n) THEN 10 * count >= 7 * n ELSE 10 * count > 7 * n

NeighborClassesMutGround(nbrs, cache, base) ==
    [i \in DOMAIN nbrs |->
        IF nbrs[i] \in DOMAIN cache THEN cache[nbrs[i]] ELSE "Ground"]

\* [self.classification_cache.get(n, base_class) for n in neighbors]
NeighborClasses(nbrs, cache, base) ==
    [i \in DOMAIN nbrs |->
        IF nbrs[i] \in DOMAIN cache THEN cache[nbrs[i]] ELSE base]

\* max(set(neighbor_classes), key=neighbor_classes.count): among labels of
\* equal count the winner is the first in the set's iteration order, which
\* for strings depends on the interpreter's hash seed: any of them
MostCommonChoices(nc) ==
    LET count == [l \in Labels |-> Count(nc, l)]
    IN  {l \in Labels : count[l] > 0 /\ \A k \in Labels : count[k] <= count[l]}

Overrides(base, nbrs, cache, mc) ==
    /\ nbrs # <<>>
    /\ mc # base
    /\ ExceedsSeventyPct(Count(NeighborClasses(nbrs, cache, base), mc), Len(nbrs))

\* the action part of classify_face_with_context once base_class is known
ClassifyWithContext(base, nbrs) ==
    \E mc \in (IF nbrs = <<>> THEN {base}
               ELSE MostCommonChoices(NeighborClasses(nbrs, classification_cache, base))) :
        /\ base_class' = base
        /\ neighbors' = nbrs
        /\ IF Overrides(base, nbrs, classification_cache, mc)
           THEN /\ classification_changes' = classification_changes + 1
                /\ face_type' = mc
           ELSE /\ classification_changes' = classification_changes
                /\ face_type' = base
        /\ UNCHANGED classification_cache

NoFile == <<"no file">>

FilesIdle ==
    /\ src = <<>>
    /\ src_pos = 0
    /\ dst = NoFile
    /\ obj_file = <<>>
    /\ current_material = NoLabel
    /\ failed_files = <<>>

NoSummary == <<"no summary">>

\* (obj_path.name, message): the file is named by its place in the directory
FailureRecord(message) == <<dir_pos, message>>

\* no directory is being processed
BatchIdle ==
    /\ processed_files = 0
    /\ building_outlines = {}
    /\ obj_dir = <<>>
    /\ dir_pos = 0
    /\ mtl_file = NoFile
    /\ warnings = 0
    /\ results = <<>>
    /\ summary = NoSummary

\* the other programs of the repository, not running
CopyIdle ==
    /\ root_exists = FALSE
    /\ root_files = <<>>
    /\ sources = <<>>
    /\ to_visit = {}
    /\ overwrite = FALSE
    /\ backup = FALSE
    /\ copy_results = <<>>

\* None, for a box
NoBounds == [none |-> TRUE]

\* no document at the output path
NoOutput == [written |-> FALSE]

\* the process has not exited
Running == -1

MergeIdle ==
    /\ gml_dir = <<>>
    /\ valid_files = <<>>
    /\ merge_pos = 0
    /\ city_objects = <<>>
    /\ all_bounds = <<>>
    /\ merged_bounds = NoBounds
    /\ output_name = <<>>
    /\ output_file = NoOutput
    /\ exit_status = Running

NibIdle ==
    /\ kota_codes = <<>>
    /\ kecamatan_codes = <<>>
    /\ nib_args = <<>>
    /\ nib = <<>>

\* no exception
NoException == "none"

\* the return value of run_subprocess_with_capture, while there is none
NoReturnCode == 0

\* OutputCapture before __enter__ and after __exit__, lines 13-16 and 26-29
NotCapturing == [log_open |-> FALSE, redirected |-> FALSE]

\* no progress bar
NoBar == [n |-> 0, total |-> 0, closed |-> FALSE]

\* main, not running
MainIdle ==
    /\ file_set = <<>>
    /\ set_index = 0
    /\ step_no = 0
    /\ step_log = <<>>
    /\ returncode = NoReturnCode
    /\ directories = {}
    /\ output_capture = NotCapturing
    /\ pbar = NoBar
    /\ final_summary = FALSE
    /\ raised = NoException

ToolsIdle == CopyIdle /\ MergeIdle /\ NibIdle /\ MainIdle
NotCopyIdle == MergeIdle /\ NibIdle /\ MainIdle
NotMergeIdle == CopyIdle /\ NibIdle /\ MainIdle
NotNibIdle == CopyIdle /\ MergeIdle /\ MainIdle
NotMainIdle == CopyIdle /\ MergeIdle /\ NibIdle

\* the Building Colorizer, not running
ColorizerIdle ==
    /\ vertices = <<>>
    /\ faces = <<>>
    /\ face_index = <<>>
    /\ neighbors = <<>>
    /\ classification_cache = <<>>
    /\ classification_changes = 0
    /\ base_class = NoLabel
    /\ face_type = NoLabel
    /\ ground_height = 0
    /\ z_values = <<>>
    /\ face_idx = 0
    /\ classifications = <<>>
    /\ FilesIdle
    /\ BatchIdle

----------------------------------------------------------------------------
(* process_mesh on one loaded mesh *)

MaxFaces == 2

P(x, y, z) == <<x * Step, y * Step, z * Step>>

\* vertex arrays of the meshes explored: a base triangle and a fourth corner
\* at or near ground level, and three points on a vertical line
MeshVertexLists ==
    { <<P(0, 0, 0), P(48, 0, 0), P(0, -48, 0), P(0, 0, 40), P(48, -48, 1), P(0, 0, 80)>>,
      <<P(0, 0, 0), P(48, 0, 0), P(0, -48, 2), P(0, 0, 40), P(48, -48, 2), P(0, 0, 80)>>,
      <<P(0, 0, 40), P(48, 0, 40), P(0, -48, 40), P(0, 0, 40), P(48, -48, 40), P(0, 0, 40)>> }

NumVertices == Len(CHOOSE vs \in MeshVertexLists : TRUE)

\* faces as load_obj_file keeps them: at least 3 indices; triangles with
\* ascending corners, two with a repeated corner, and two quads
FaceShapes ==
    {f \in (1 .. NumVertices) \X (1 .. NumVertices) \X (1 .. NumVertices) :
        f[1] < f[2] /\ f[2] < f[3]}

DegenerateShapes == {<<1, 1, 2>>, <<4, 4, 5>>}
QuadShapes == {<<1, 2, 5, 3>>, <<1, 2, 3, 5>>}

MeshFaceLists ==
    UNION {[1 .. n -> FaceShapes \cup DegenerateShapes \cup QuadShapes] : n \in 1 .. MaxFaces}

MeshIdle ==
    /\ vertices = <<>>
    /\ faces = <<>>
    /\ face_index = <<>>

SmoothIdle ==
    /\ neighbors = <<>>
    /\ classification_cache = <<>>
    /\ classification_changes = 0
    /\ base_class = NoLabel
    /\ face_type = NoLabel

\* the state in which process_building calls process_mesh (line 350):
\* load_obj_file returned a non-empty vertex array and face list, and
\* __init__ (lines 119-126) left the cache empty and the counters zero
Init ==
    /\ vertices \in MeshVertexLists
    /\ faces \in MeshFaceLists
    /\ ground_height = 0
    /\ face_index = <<>>
    /\ face_idx = 0
    /\ classifications = <<>>
    /\ SmoothIdle
    /\ FilesIdle
    /\ BatchIdle
    /\ ToolsIdle
    /\ z_values = <<>>
    /\ pc = "process_mesh"

\* process_mesh, lines 209-216: ground level, spatial index, empty result
StartMesh ==
    /\ pc = "process_mesh"
    /\ z_values' = [i \in DOMAIN vertices |-> vertices[i][3]]
    /\ ground_height' = analyze_z_distribution(z_values')
    /\ face_index' = create_spatial_index(vertices, faces)
    /\ classifications' = <<>>
    /\ face_idx' = 1
    /\ pc' = "classify"
    /\ UNCHANGED <<toolVars, vertices, faces, smoothVars, fileVars, batchVars>>

\* process_mesh, lines 217-225: one iteration of the loop over the faces
AppendLabelMutPrepend(labels, label) == <<label>> \o labels
AppendLabel(labels, label) == Append(labels, label)

ClassifyFace ==
    /\ pc = "classify"
    /\ face_idx <= Len(faces)
    /\ ClassifyWithContext(BaseClass(vertices, faces[face_idx], ground_height),
                           get_neighboring_faces(face_idx, face_index))
    /\ classifications' = AppendLabel(classifications, face_type')
    /\ face_idx' = face_idx + 1
    /\ UNCHANGED <<toolVars, meshVars, batchVars, groundVars, fileVars, pc>>

\* process_mesh, line 227: the loop is over, the labels are returned
ReturnMesh ==
    /\ pc = "classify"
    /\ face_idx > Len(faces)
    /\ pc' = "done"
    /\ UNCHANGED <<toolVars, meshVars, batchVars, smoothVars, groundVars, fileVars, face_idx, classifications>>

Next == StartMesh \/ ClassifyFace \/ ReturnMesh

Spec == Init /\ [][Next]_vars

----------------------------------------------------------------------------
(* Properties of process_mesh (specification Spec) *)

\* the features of a face that the classification rule is stated on
AtGroundLevel(vs, face, gh) ==
    Abs(FaceZSum(vs, face) - Len(face) * gh) <= Len(face) * Tolerance
NearHorizontal(vs, face) ==
    LET n == get_face_normal(vs, face)
    IN  HorizontalDen * HorizontalDen * n[3] * n[3] > HorizontalNum * HorizontalNum * NormSq(n)
NearVertical(vs, face) ==
    LET n == get_face_normal(vs, face)
    IN  VerticalDen * VerticalDen * n[3] * n[3] < VerticalNum * VerticalNum * NormSq(n)

RuleLabel(vs, face, gh) ==
    CASE AtGroundLevel(vs, face, gh) /\ NearHorizontal(vs, face) -> "Ground"
      [] ~(AtGroundLevel(vs, face, gh) /\ NearHorizontal(vs, face))
            /\ NearVertical(vs, face) -> "Wall"
      [] OTHER -> "Roof"

\* whether the first three vertices of a face are collinear or coincident
LeadingVerticesDegenerate(vs, face) ==
    Cross(Sub(vs[face[2]], vs[face[1]]), Sub(vs[face[3]], vs[face[1]])) = <<0, 0, 0>>

\* the faces other than i whose centroid lies in the grid cell of face i
SameCellFaces(i) ==
    {j \in DOMAIN faces \ {i} : CellKey(vertices, faces[j]) = CellKey(vertices, faces[i])}

\* C2: process_mesh returns exactly one label per face, in face order, each
\* of them Roof, Wall or Ground.  While the loop runs the list holds the
\* labels of the faces visited so far; entry i is the label of face i (its
\* rule-based label, or a label taken over from the cache).
C2_OneLabelPerFaceInOrder ==
    /\ pc = "classify" => Len(classifications) = face_idx - 1
    /\ pc = "done" => Len(classifications) = Len(faces)
    /\ pc \in {"classify", "done"} =>
          \A i \in DOMAIN classifications :
              /\ classifications[i] \in Labels
              /\ classifications[i] \in
                    {RuleLabel(vertices, faces[i], ground_height)}
                        \cup Range(classification_cache)

C2_Witness ==
    /\ pc = "done"
    /\ Len(faces) = 2
    /\ classifications[1] = "Wall"
    /\ classifications[2] = "Ground"

\* C3: a face whose first three vertices are collinear or coincident gets
\* the zero vector as its normal and is labelled Wall, whatever its elevation.
C3_DegenerateFaceIsWall ==
    pc \in {"classify", "done"} =>
        \A i \in DOMAIN classifications :
            LeadingVerticesDegenerate(vertices, faces[i]) =>
                /\ get_face_normal(vertices, faces[i]) = <<0, 0, 0>>
                /\ classifications[i] = "Wall"

\* C4: the neighbour list passed to the smoothing step for face i is exactly
\* the set of the other faces in the grid cell of face i.
C4_NeighborsAreSameCellFaces ==
    (pc = "classify" /\ face_idx > 1) =>
        /\ Range(neighbors) = SameCellFaces(face_idx - 1)
        /\ Range(neighbors) =
              Range(face_index[CellKey(vertices, faces[face_idx - 1])]) \ {face_idx - 1}

\* C6: when face k is about to be classified the label cache holds exactly
\* the final labels of the faces before k.
C6_CacheHoldsLabelsOfVisitedFaces ==
    pc = "classify" =>
        /\ DOMAIN classification_cache = 1 .. (face_idx - 1)
        /\ \A i \in 1 .. (face_idx - 1) : classification_cache[i] = classifications[i]

----------------------------------------------------------------------------
(* The rule-based label on its own (specification SpecRule): one face of   *)
(* any shape over a pool of points, and any ground height                  *)

RulePoints ==
    {P(x, y, z) : x \in {0, 48}, y \in {0, -48}, z \in {0, 1, 2, 40}}

\* a triangle, and two polygons that repeat a corner
RuleFaces == {<<1, 2, 3>>, <<1, 2, 3, 3>>, <<1, 1, 2, 3>>}

\* ground heights at, just within and just beyond the tolerance of the
\* elevation Step, and one far away
RuleGroundHeights == {0, Step - Tolerance + 1, Step - Tolerance - 1, 40 * Step}

InitRule ==
    /\ vertices \in [1 .. 3 -> RulePoints]
    /\ faces \in {<<f>> : f \in RuleFaces}
    /\ ground_height \in RuleGroundHeights
    /\ face_index = <<>>
    /\ face_idx = 1
    /\ classifications = <<>>
    /\ SmoothIdle
    /\ FilesIdle
    /\ BatchIdle
    /\ ToolsIdle
    /\ z_values = <<>>
    /\ pc = "rule"

\* classify_face_with_context, lines 234-243
ClassifyBase ==
    /\ pc = "rule"
    /\ base_class' = BaseClass(vertices, faces[face_idx], ground_height)
    /\ pc' = "rule_done"
    /\ UNCHANGED <<toolVars, meshVars, batchVars, groundVars, fileVars, face_idx, classifications,
                   neighbors, classification_cache, classification_changes, face_type>>

NextRule == ClassifyBase

SpecRule == InitRule /\ [][NextRule]_vars

\* C1: the rule-based label is Ground iff the face's average elevation is
\* within 0.01 of the ground height and |normal.z| > 0.95; otherwise Wall
\* iff |normal.z| < 0.1; otherwise Roof.
C1_RuleBasedLabel ==
    pc = "rule_done" =>
        LET face == faces[face_idx]
            ground == AtGroundLevel(vertices, face, ground_height)
                        /\ NearHorizontal(vertices, face)
        IN  /\ base_class \in Labels
            /\ base_class = "Ground" <=> ground
            /\ base_class = "Wall" <=> (~ground /\ NearVertical(vertices, face))
            /\ base_class = "Roof" <=> (~ground /\ ~NearVertical(vertices, face))

\* a horizontal face just within the tolerance of the ground height
C1_Witness ==
    /\ pc = "rule_done"
    /\ base_class = "Ground"
    /\ FaceZSum(vertices, faces[face_idx]) # Len(faces[face_idx]) * ground_height

----------------------------------------------------------------------------
(* The smoothing rule on its own (specification SpecSmooth): any base      *)
(* label, n neighbours, and a cache that labels some of them               *)

MaxNeighbors == 10
LargeNeighbors == 90

NeighborCounts == (0 .. MaxNeighbors) \cup {LargeNeighbors}

\* the cache that labels neighbours 1..a Roof, the next b Wall, the next c
\* Ground (at most MaxNeighbors of these) and leaves the others without a label
BlockCache(a, b, c) ==
    [i \in 1 .. (a + b + c) |->
        IF i <= a THEN "Roof" ELSE IF i <= a + b THEN "Wall" ELSE "Ground"]

InitSmooth ==
    /\ MeshIdle
    /\ FilesIdle
    /\ BatchIdle
    /\ ToolsIdle
    /\ ground_height = 0
    /\ z_values = <<>>
    /\ face_idx = 1
    /\ classifications = <<>>
    /\ base_class \in Labels
    /\ \E n \in NeighborCounts :
          /\ neighbors = [i \in 1 .. n |-> i]
          /\ \E a \in 0 .. n : \E b \in 0 .. (n - a) :
                \E c \in 0 .. (IF n - a - b < MaxNeighbors THEN n - a - b ELSE MaxNeighbors) :
                    classification_cache = BlockCache(a, b, c)
    /\ classification_changes = 0
    /\ face_type = NoLabel
    /\ pc = "smooth"

\* classify_face_with_context, lines 245-255
SmoothFace ==
    /\ pc = "smooth"
    /\ ClassifyWithContext(base_class, neighbors)
    /\ pc' = "smooth_done"
    /\ UNCHANGED <<toolVars, meshVars, batchVars, groundVars, fileVars, face_idx, classifications>>

NextSmooth == SmoothFace

SpecSmooth == InitSmooth /\ [][NextSmooth]_vars

\* the label each neighbour contributes, and the count of the most frequent
NeighborLabel(i) ==
    IF neighbors[i] \in DOMAIN classification_cache
    THEN classification_cache[neighbors[i]] ELSE base_class
LabelCount(l) == Cardinality({i \in DOMAIN neighbors : NeighborLabel(i) = l})
LabelCounts == [l \in Labels |-> LabelCount(l)]
MajorityCount == MaxOf({LabelCounts[l] : l \in Labels})
MajorityLabels == {l \in Labels : LabelCounts[l] = MajorityCount}

\* C5: with n >= 1 neighbours whose most frequent label has count m, the
\* result is that label iff it differs from the base label and 10 m > 7 n;
\* otherwise, m = 0.7 n included, the result is the base label.
C5_OverrideIffStrictlyAboveSeventyPct ==
    (pc = "smooth_done" /\ neighbors # <<>>) =>
        IF \E l \in MajorityLabels :
              l # base_class /\ 10 * MajorityCount > 7 * Len(neighbors)
        THEN face_type \in MajorityLabels /\ face_type # base_class
        ELSE face_type = base_class

----------------------------------------------------------------------------
(* The ground level estimator on its own (specification SpecGround): lists *)
(* of elevations on a few levels, each level repeated up to MaxCopies      *)
(* times, in ascending or descending order                                 *)

MaxCopies == 11

ZLevels == <<-50 * Step, 0, Step, 50 * Step>>

RECURSIVE Repeat(_, _)
Repeat(x, n) == IF n = 0 THEN <<>> ELSE <<x>> \o Repeat(x, n - 1)

Reverse(s) == [i \in DOMAIN s |-> s[Len(s) + 1 - i]]

LevelList(c) ==
    Repeat(ZLevels[1], c[1]) \o Repeat(ZLevels[2], c[2])
        \o Repeat(ZLevels[3], c[3]) \o Repeat(ZLevels[4], c[4])

InitGround ==
    /\ MeshIdle
    /\ SmoothIdle
    /\ FilesIdle
    /\ BatchIdle
    /\ ToolsIdle
    /\ face_idx = 0
    /\ classifications = <<>>
    /\ ground_height = 0
    /\ \E c \in [1 .. 4 -> 0 .. MaxCopies] :
          z_values \in {LevelList(c), Reverse(LevelList(c))}
    /\ pc = "ground"

\* analyze_z_distribution, lines 32-49
AnalyzeZ ==
    /\ pc = "ground"
    /\ ground_height' = analyze_z_distribution(z_values)
    /\ pc' = "ground_done"
    /\ UNCHANGED <<toolVars, meshVars, batchVars, smoothVars, fileVars, z_values, face_idx, classifications>>

NextGround == AnalyzeZ

SpecGround == InitGround /\ [][NextGround]_vars

\* bucket i of the 50 equal-width buckets over the histogram range holds
\* the values z with edge(i) <= z < edge(i+1); the last one holds edge(50) too
BucketCount(first, width, i) ==
    Cardinality({k \in DOMAIN z_values :
        /\ NumBins * (z_values[k] - first) >= i * width
        /\ \/ NumBins * (z_values[k] - first) < (i + 1) * width
           \/ i = NumBins - 1})
BucketCounts ==
    LET first == FirstEdge(z_values)
        width == LastEdge(z_values) - first
    IN  [i \in 0 .. NumBins - 1 |-> BucketCount(first, width, i)]
SignificantBuckets ==
    LET count == BucketCounts
        peak == MaxOf(Range(count))
    IN  {i \in 0 .. NumBins - 1 : 10 * count[i] > peak}

\* C7: 0.0 for the empty list; otherwise the left edge of the lowest bucket
\* whose count is strictly above 0.1 times the highest bucket count.
C7_LeftEdgeOfLowestSignificantBucket ==
    pc = "ground_done" =>
        IF z_values = <<>> THEN ground_height = 0
        ELSE LET significant == SignificantBuckets
             IN  /\ significant # {}
                 /\ NumBins * (ground_height - FirstEdge(z_values))
                       = MinOf(significant) * (LastEdge(z_values) - FirstEdge(z_values))

\* a low bucket that is not significant is passed over
C7_Witness ==
    /\ pc = "ground_done"
    /\ z_values # <<>>
    /\ ground_height > MinOf(Range(z_values))

\* C8: when the lowest bucket's count exceeds 0.1 times the peak count the
\* result is exactly the minimum elevation.
C8_MinimumWhenLowestBucketSignificant ==
    (pc = "ground_done" /\ z_values # <<>> /\ 0 \in SignificantBuckets) =>
        ground_height = MinOf(Range(z_values))

C8_Witness ==
    /\ pc = "ground_done"
    /\ z_values # <<>>
    /\ 0 \in SignificantBuckets
    /\ Cardinality(Range(z_values)) >= 3
    /\ ground_height = MinOf(Range(z_values))

----------------------------------------------------------------------------
(* update_obj_file (specification SpecWriter)                              *)
(*                                                                         *)
(* A line is the sequence of its leading characters, with the rest of the  *)
(* line as one last element; the line terminator is left out.              *)

StartsWith(line, prefix) ==
    /\ Len(line) >= Len(prefix)
    /\ SubSeq(line, 1, Len(prefix)) = prefix

FacePrefix == <<"f", " ">>
MtllibPrefix == <<"m", "t", "l", "l", "i", "b">>
UsemtlPrefix == <<"u", "s", "e", "m", "t", "l">>

HeaderLineMutRecord == <<"v", " ", "0", " ", "0", " ", "1">>
\* f"# Processed by Building Colorizer v{__version__}\n"
HeaderLine == <<"#", " ", "Processed by Building Colorizer v2.0.0">>
\* f"mtllib {obj_path.stem}.mtl\n"
LibLine == MtllibPrefix \o <<" ", "stem.mtl">>
\* f"usemtl {new_material}\n"
UseLine(material) == UsemtlPrefix \o <<" ", material>>

\* line.startswith('f ')
IsFaceLine(line) == StartsWith(line, FacePrefix)
\* line.startswith(('mtllib', 'usemtl'))
IsMaterialLine(line) == StartsWith(line, MtllibPrefix) \/ StartsWith(line, UsemtlPrefix)

\* lines 315-319: what the face branch writes
WrittenForFaceMutAlways(line, new_material, current) == <<UseLine(new_material), line>>
WrittenForFace(line, new_material, current) ==
    IF new_material # current THEN <<UseLine(new_material), line>> ELSE <<line>>

\* lines 321-322: what the other branch writes
WrittenForOtherMutDrop(line) == <<>>
WrittenForOther(line) == IF ~IsMaterialLine(line) THEN <<line>> ELSE <<>>

MaxLines == 5

\* the lines an input file is made of: a face, a vertex, the material
\* directives of an earlier run or of another tool, and a material
\* directive written with a leading blank
InputLines ==
    { FacePrefix \o <<"1 2 3">>,
      <<"v", " ", "0 0 0">>,
      MtllibPrefix \o <<" ", "old.mtl">>,
      UsemtlPrefix \o <<" ", "Wall">>,
      <<" ">> \o UsemtlPrefix \o <<" ", "Old">> }

InputFiles == UNION {[1 .. n -> InputLines] : n \in 0 .. MaxLines}

NumFaceLines(lines) == Cardinality({i \in DOMAIN lines : IsFaceLine(lines[i])})

\* label lists one shorter than, as long as and one longer than the number
\* of face lines of the file
LabelLists(lines) ==
    UNION {[1 .. n -> Labels] :
              n \in {NumFaceLines(lines) - 1, NumFaceLines(lines),
                     NumFaceLines(lines) + 1} \cap Nat}

InitWriter ==
    /\ MeshIdle
    /\ SmoothIdle
    /\ BatchIdle
    /\ ToolsIdle
    /\ ground_height = 0
    /\ z_values = <<>>
    /\ obj_file \in InputFiles
    /\ classifications \in LabelLists(obj_file)
    /\ src = <<>>
    /\ src_pos = 0
    /\ dst = NoFile
    /\ face_idx = 0
    /\ current_material = NoLabel
    /\ failed_files = <<>>
    /\ pc = "update"

\* lines 305-311: both files opened, the header written
OpenFiles ==
    /\ pc = "update"
    /\ src' = obj_file
    /\ src_pos' = 0
    /\ dst' = <<HeaderLine, LibLine>>
    /\ face_idx' = 0
    /\ current_material' = NoLabel
    /\ pc' = "copy"
    /\ UNCHANGED <<toolVars, meshVars, batchVars, smoothVars, groundVars, obj_file, failed_files,
                   classifications>>

\* lines 305-308: open(obj_path), open(temp_path, 'w') or a write of the
\* header raises; the temporary file does not exist, is empty or holds the
\* first header line
FailOpen ==
    /\ pc = "update"
    /\ dst' \in {NoFile, <<>>, <<HeaderLine>>}
    /\ src' = IF dst' = NoFile THEN <<>> ELSE obj_file
    /\ pc' = "except"
    /\ UNCHANGED <<toolVars, meshVars, batchVars, smoothVars, groundVars, src_pos, obj_file, current_material,
                   failed_files, face_idx, classifications>>

\* lines 313-322: reading a line of src or writing to dst raises
FailCopy ==
    /\ pc = "copy"
    /\ src_pos < Len(src)
    /\ pc' = "except"
    /\ UNCHANGED <<toolVars, meshVars, batchVars, smoothVars, groundVars, fileVars, face_idx, classifications>>

\* line 325: os.replace raises, obj_path is left as it was
FailReplace ==
    /\ pc = "copy"
    /\ src_pos = Len(src)
    /\ pc' = "except"
    /\ UNCHANGED <<toolVars, meshVars, batchVars, smoothVars, groundVars, fileVars, face_idx, classifications>>

\* lines 313-322: one iteration of the loop over the lines of src;
\* classifications[face_idx] raises IndexError when the labels have run out
CopyLine ==
    /\ pc = "copy"
    /\ src_pos < Len(src)
    /\ LET line == src[src_pos + 1]
       IN  IF IsFaceLine(line)
           THEN IF face_idx >= Len(classifications)
                THEN /\ pc' = "except"
                     /\ UNCHANGED <<src_pos, dst, face_idx, current_material>>
                ELSE /\ dst' = dst \o WrittenForFace(line, classifications[face_idx + 1],
                                                     current_material)
                     /\ current_material' = classifications[face_idx + 1]
                     /\ face_idx' = face_idx + 1
                     /\ src_pos' = src_pos + 1
                     /\ pc' = pc
           ELSE /\ dst' = dst \o WrittenForOther(line)
                /\ src_pos' = src_pos + 1
                /\ UNCHANGED <<face_idx, current_material, pc>>
    /\ UNCHANGED <<toolVars, meshVars, batchVars, smoothVars, groundVars, src, obj_file, failed_files,
                   classifications>>

\* line 325: os.replace(temp_path, obj_path)
ReplaceFile ==
    /\ pc = "copy"
    /\ src_pos = Len(src)
    /\ obj_file' = dst
    /\ dst' = NoFile
    /\ pc' = "updated"
    /\ UNCHANGED <<toolVars, meshVars, batchVars, smoothVars, groundVars, src, src_pos, current_material,
                   failed_files, face_idx, classifications>>

\* lines 327-330: the failure is recorded and the temporary file removed
HandleUpdateErrorMutKeepTemp ==
    /\ pc = "except"
    /\ failed_files' = Append(failed_files, FailureRecord("OBJ update failed"))
    /\ pc' = "update_failed"
    /\ UNCHANGED <<toolVars, meshVars, batchVars, smoothVars, groundVars, src, src_pos, obj_file, dst,
                   current_material, face_idx, classifications>>
HandleUpdateError ==
    /\ pc = "except"
    /\ failed_files' = Append(failed_files, FailureRecord("OBJ update failed"))
    /\ dst' = NoFile
    /\ pc' = "update_failed"
    /\ UNCHANGED <<toolVars, meshVars, batchVars, smoothVars, groundVars, src, src_pos, obj_file,
                   current_material, face_idx, classifications>>

NextWriter ==
    \/ OpenFiles
    \/ CopyLine
    \/ ReplaceFile
    \/ HandleUpdateError
    \/ FailOpen
    \/ FailCopy
    \/ FailReplace

SpecWriter == InitWriter /\ [][NextWriter]_vars

(* Properties of update_obj_file *)

\* a material directive of the OBJ format: the keyword, then a blank
MaterialDirective(line) ==
    \/ StartsWith(line, <<"m", "t", "l", "l", "i", "b", " ">>)
    \/ StartsWith(line, <<"u", "s", "e", "m", "t", "l", " ">>)

UseDirective(line) == StartsWith(line, <<"u", "s", "e", "m", "t", "l", " ">>)

NonMaterial(lines) == SelectSeq(lines, LAMBDA l : ~MaterialDirective(l))

\* positions of the face lines of a file, in order
FacePositions(lines) ==
    LET F[i \in 0 .. Len(lines)] ==
            IF i = 0 THEN <<>>
            ELSE IF StartsWith(lines[i], <<"f", " ">>) THEN Append(F[i - 1], i)
                 ELSE F[i - 1]
    IN  F[Len(lines)]

\* number of places where a label differs from the label before it
LabelChanges(labels, n) ==
    Cardinality({k \in 2 .. n : labels[k] # labels[k - 1]})

UseDirectiveCount(lines) ==
    Cardinality({i \in DOMAIN lines : UseDirective(lines[i])})

\* C9: in the file the writer leaves behind, the k-th face line is
\* immediately preceded by a usemtl directive exactly when it is the first
\* face line or its label differs from the label of the face line before it,
\* the directive names that face's label, and so the file holds one usemtl
\* line plus one per change between adjacent labels.
C9_UsemtlIsEdgeTriggered ==
    pc = "updated" =>
        LET pos == FacePositions(obj_file)
            n   == Len(pos)
        IN  /\ n <= Len(classifications)
            /\ \A k \in 1 .. n :
                  /\ UseDirective(obj_file[pos[k] - 1])
                        <=> (k = 1 \/ classifications[k] # classifications[k - 1])
                  /\ UseDirective(obj_file[pos[k] - 1])
                        => obj_file[pos[k] - 1] = UseLine(classifications[k])
            /\ UseDirectiveCount(obj_file) =
                  IF n = 0 THEN 0 ELSE 1 + LabelChanges(classifications, n)

C9_Witness ==
    /\ pc = "updated"
    /\ classifications = <<"Wall", "Wall", "Roof", "Roof", "Ground">>
    /\ Len(FacePositions(obj_file)) = 5
    /\ UseDirectiveCount(obj_file) = 3

\* C10 as stated: leaving the material directives aside, the file the writer
\* leaves behind is the input file, line for line.
C10_IdenticalExceptMaterialDirectives ==
    pc = "updated" => NonMaterial(obj_file) = NonMaterial(src)

\* C10 as the code has it: leaving the material directives aside, the file
\* the writer leaves behind is the "# Processed by ..." comment line followed
\* by the input's lines, verbatim and in order; the writer adds that comment,
\* one mtllib line and usemtl lines, and nothing else.
C10_IdenticalExceptHeaderAndMaterialDirectives ==
    pc = "updated" =>
        /\ NonMaterial(obj_file) = <<HeaderLine>> \o NonMaterial(src)
        /\ \A i \in DOMAIN obj_file :
              MaterialDirective(obj_file[i]) =>
                  \/ obj_file[i] = LibLine
                  \/ \E l \in Labels : obj_file[i] = UseLine(l)

C10_Witness ==
    /\ pc = "updated"
    /\ Len(NonMaterial(src)) >= 3
    /\ \E i \in DOMAIN src : MaterialDirective(src[i])
    /\ \E i \in DOMAIN src : ~StartsWith(src[i], <<"f", " ">>) /\ ~MaterialDirective(src[i])
    /\ \E i \in DOMAIN src : StartsWith(src[i], <<"f", " ">>)

\* a line without its leading blanks
RECURSIVE LStrip(_)
LStrip(line) ==
    IF line # <<>> /\ Head(line) = " " THEN LStrip(Tail(line)) ELSE line

\* material directives as an OBJ reader takes them: leading blanks do not count
IsMtllibDirective(line) == StartsWith(LStrip(line), <<"m", "t", "l", "l", "i", "b", " ">>)
IsUsemtlDirective(line) == StartsWith(LStrip(line), <<"u", "s", "e", "m", "t", "l", " ">>)

\* the usemtl lines the writer emits for the first n labels
EmittedUseLines(labels, n) ==
    LET E[k \in 0 .. n] ==
            IF k = 0 THEN <<>>
            ELSE IF k = 1 \/ labels[k] # labels[k - 1]
                 THEN Append(E[k - 1], UseLine(labels[k]))
                 ELSE E[k - 1]
    IN  E[n]

\* C11: in the file the writer leaves behind no material directive of the
\* input survives: its material directives are, in order, the one mtllib
\* line naming <stem>.mtl and the usemtl lines the writer emitted for the
\* face labels.
C11_InputDirectivesDropped ==
    pc = "updated" =>
        SelectSeq(obj_file, LAMBDA l : IsMtllibDirective(l) \/ IsUsemtlDirective(l))
            = <<LibLine>> \o EmittedUseLines(classifications, Len(FacePositions(obj_file)))

\* C13: the file at obj_path changes only in the replace step, which puts
\* there a temporary file that holds every line of the loop's output; after
\* a failure the temporary file is gone, the failure is recorded, and the
\* file at obj_path is the one that was opened.
C13_OriginalKeptOnFailure ==
    /\ [](pc = "update_failed" =>
            /\ dst = NoFile
            /\ failed_files = <<FailureRecord("OBJ update failed")>>
            /\ src # <<>> => obj_file = src)
    /\ [][obj_file' # obj_file =>
            /\ pc = "copy" /\ pc' = "updated"
            /\ src_pos = Len(src)
            /\ NumFaceLines(dst) = NumFaceLines(src)
            /\ obj_file' = dst
            /\ dst' = NoFile]_vars

C13_Witness ==
    /\ pc = "update_failed"
    /\ src_pos > 1
    /\ src_pos < Len(src)
    /\ obj_file = src
    /\ failed_files = <<FailureRecord("OBJ update failed")>>

----------------------------------------------------------------------------
(* load_obj_file (specification SpecLoader)                                *)
(*                                                                         *)
(* Here a line is the sequence of all its characters.  A vertex index is   *)
(* kept one above the code's 0-based value, as sequences are 1-based.      *)

Blank == {" ", "\t"}

Digit == ("0" :> 0) @@ ("1" :> 1) @@ ("2" :> 2) @@ ("3" :> 3) @@ ("4" :> 4) @@
         ("5" :> 5) @@ ("6" :> 6) @@ ("7" :> 7) @@ ("8" :> 8) @@ ("9" :> 9)

\* str.split(): the maximal runs of non-blank characters
RECURSIVE SplitFrom(_, _, _)
SplitFrom(line, word, words) ==
    IF line = <<>> THEN (IF word = <<>> THEN words ELSE Append(words, word))
    ELSE IF Head(line) \in Blank
         THEN SplitFrom(Tail(line), <<>>, IF word = <<>> THEN words ELSE Append(words, word))
         ELSE SplitFrom(Tail(line), Append(word, Head(line)), words)

Split(line) == SplitFrom(line, <<>>, <<>>)

\* v.split('/')[0]
RECURSIVE BeforeSlash(_)
BeforeSlash(word) ==
    IF word = <<>> \/ Head(word) = "/" THEN <<>>
    ELSE <<Head(word)>> \o BeforeSlash(Tail(word))

AllDigits(word) == word # <<>> /\ \A i \in DOMAIN word : word[i] \in DOMAIN Digit

RECURSIVE DigitsValue(_, _)
DigitsValue(word, acc) ==
    IF word = <<>> THEN acc ELSE DigitsValue(Tail(word), 10 * acc + Digit[Head(word)])

Signed(word) == word # <<>> /\ Head(word) \in {"-", "+"}
Unsigned(word) == IF Signed(word) THEN Tail(word) ELSE word
SignOf(word) == IF word # <<>> /\ Head(word) = "-" THEN -1 ELSE 1

\* int(word) accepts an optional sign and decimal digits; otherwise ValueError
IntRaises(word) == ~AllDigits(Unsigned(word))
ParseInt(word) == SignOf(word) * DigitsValue(Unsigned(word), 0)

RECURSIVE Pow10(_)
Pow10(n) == IF n = 0 THEN 1 ELSE 10 * Pow10(n - 1)

\* float(word), for the spellings explored here: an optional sign, decimal
\* digits and at most one point (no exponent, inf or nan); otherwise
\* ValueError
FloatRaises(word) ==
    LET u == Unsigned(word)
    IN  \/ Cardinality({i \in DOMAIN u : u[i] = "."}) > 1
        \/ ~AllDigits(SelectSeq(u, LAMBDA c : c # "."))

\* the value in units of 1/Scale; the fractions explored are multiples of Step
ParseFloat(word) ==
    LET u     == Unsigned(word)
        dots  == {i \in DOMAIN u : u[i] = "."}
        d     == IF dots = {} THEN Len(u) + 1 ELSE CHOOSE i \in dots : TRUE
        whole == SubSeq(u, 1, d - 1)
        frac  == SubSeq(u, d + 1, Len(u))
    IN  SignOf(word) * (DigitsValue(whole, 0) * Scale
                        + (DigitsValue(frac, 0) * Scale) \div Pow10(Len(frac)))

\* lines 147-153: float(values[1]), float(values[2]), float(values[3]) raise
\* IndexError or ValueError
VertexRaises(values) ==
    \/ Len(values) < 4
    \/ \E k \in 2 .. 4 : FloatRaises(values[k])

ParseVertex(values) == [k \in 1 .. 3 |-> ParseFloat(values[k + 1])]

\* lines 158-162: int(v.split('/')[0]) raises ValueError for some corner
FaceRaises(values) ==
    \E k \in 2 .. Len(values) : IntRaises(BeforeSlash(values[k]))

\* the index of a corner: OBJ index - 1 in the code, kept one above that here
IndexOfCorner(word) == (ParseInt(BeforeSlash(word)) - 1) + 1

ParseFace(values) == [k \in 1 .. Len(values) - 1 |-> IndexOfCorner(values[k + 1])]

\* lines 140-167: the effect of one line on the lists being loaded
LoadLine(mesh, line) ==
    LET values == Split(line)
    IN  IF StartsWith(line, <<"#">>) THEN mesh
        ELSE IF values = <<>> THEN mesh
        ELSE IF values[1] = <<"v">> THEN
            (IF VertexRaises(values)
             THEN [mesh EXCEPT !.warnings = @ + 1]
             ELSE [mesh EXCEPT !.vertices = Append(@, ParseVertex(values))])
        ELSE IF values[1] = <<"f">> THEN
            (IF FaceRaises(values)
             THEN [mesh EXCEPT !.warnings = @ + 1]
             ELSE IF Len(ParseFace(values)) >= 3
                  THEN [mesh EXCEPT !.faces = Append(@, ParseFace(values))]
                  ELSE mesh)
        ELSE mesh

\* lines 139-167: the loop over the lines of the file
RECURSIVE LoadLines(_, _)
LoadLines(mesh, lines) ==
    IF lines = <<>> THEN mesh ELSE LoadLines(LoadLine(mesh, Head(lines)), Tail(lines))

EmptyMesh == [vertices |-> <<>>, faces |-> <<>>, warnings |-> 0]

\* lines 169-171: load_obj_file returns None, None
ReturnsNone(mesh) == mesh.vertices = <<>> \/ mesh.faces = <<>>

\* load_obj_file: the lists and the number of "Invalid vertex/face" warnings
load_obj_file(lines) == LoadLines(EmptyMesh, lines)

\* words joined by single blanks
RECURSIVE Join(_)
Join(words) ==
    IF Len(words) = 1 THEN words[1] ELSE words[1] \o <<" ">> \o Join(Tail(words))

MaxFileLines == 4

\* the lines the explored files are made of: vertex lines (one with a token
\* that is no number, one with two coordinates), face lines (with texture
\* sub-indices, with two corners, with index 0, a negative index, an index
\* beyond the vertices, a token that is no number), a comment, an empty line
LoaderLines ==
    { Join(<< <<"v">>, <<"0">>, <<"0">>, <<"0">> >>),
      Join(<< <<"v">>, <<"0", ".", "7", "5">>, <<"0">>, <<"0">> >>),
      Join(<< <<"v">>, <<"0">>, <<"-", "0", ".", "7", "5">>, <<"0", ".", "5">> >>),
      Join(<< <<"v">>, <<"0">>, <<"x">>, <<"0">> >>),
      Join(<< <<"v">>, <<"1">>, <<"2">> >>),
      Join(<< <<"f">>, <<"1">>, <<"2">>, <<"3">> >>),
      Join(<< <<"f">>, <<"1", "/", "1">>, <<"2", "/", "2">>, <<"3", "/", "3">> >>),
      Join(<< <<"f">>, <<"1">>, <<"2">> >>),
      Join(<< <<"f">>, <<"0">>, <<"1">>, <<"2">> >>),
      Join(<< <<"f">>, <<"-", "1">>, <<"1">>, <<"2">> >>),
      Join(<< <<"f">>, <<"1">>, <<"2">>, <<"9">> >>),
      Join(<< <<"f">>, <<"1">>, <<"x">>, <<"3">> >>),
      <<"#", " ", "c">>,
      <<>> }

LoaderFiles == UNION {[1 .. n -> LoaderLines] : n \in 0 .. MaxFileLines}

InitLoader ==
    /\ MeshIdle
    /\ SmoothIdle
    /\ BatchIdle
    /\ ToolsIdle
    /\ ground_height = 0
    /\ z_values = <<>>
    /\ obj_file \in LoaderFiles
    /\ classifications = <<>>
    /\ src = <<>>
    /\ src_pos = 0
    /\ dst = NoFile
    /\ face_idx = 0
    /\ current_material = NoLabel
    /\ failed_files = <<>>
    /\ pc = "load"

\* load_obj_file, lines 129-173: the file at obj_path is read
LoadFile ==
    /\ pc = "load"
    /\ LET mesh == load_obj_file(obj_file)
       IN  /\ warnings' = mesh.warnings
           /\ IF ReturnsNone(mesh)
              THEN /\ pc' = "load_none"
                   /\ UNCHANGED <<vertices, faces>>
              ELSE /\ pc' = "loaded"
                   /\ vertices' = mesh.vertices
                   /\ faces' = mesh.faces
    /\ UNCHANGED <<toolVars, face_index, smoothVars, groundVars, fileVars, processed_files,
                   building_outlines, obj_dir, dir_pos, mtl_file, results, summary,
                   face_idx, classifications>>

NextLoader == LoadFile

SpecLoader == InitLoader /\ [][NextLoader]_vars

(* Properties of load_obj_file *)

FirstWord(line) == IF Split(line) = <<>> THEN <<>> ELSE Split(line)[1]

IsVertexRecord(line) == ~StartsWith(line, <<"#">>) /\ FirstWord(line) = <<"v">>
IsFaceRecord(line) == ~StartsWith(line, <<"#">>) /\ FirstWord(line) = <<"f">>

\* a vertex line with three numbers; a face line with three integer corners
\* or more
WellFormedVertex(line) == IsVertexRecord(line) /\ ~VertexRaises(Split(line))
WellFormedFace(line) ==
    IsFaceRecord(line) /\ ~FaceRaises(Split(line)) /\ Len(Split(line)) >= 4

MapSeq(Op(_), seq) == [i \in DOMAIN seq |-> Op(seq[i])]

VertexOfLine(line) == ParseVertex(Split(line))
FaceOfLine(line) == ParseFace(Split(line))

SkippedLines(lines) ==
    Cardinality({i \in DOMAIN lines :
                    \/ IsVertexRecord(lines[i]) /\ ~WellFormedVertex(lines[i])
                    \/ IsFaceRecord(lines[i]) /\ ~WellFormedFace(lines[i])})

\* the well-formed vertex and face lines are loaded, in file order
WellFormedLinesLoaded ==
    /\ vertices = MapSeq(VertexOfLine, SelectSeq(obj_file, WellFormedVertex))
    /\ faces = MapSeq(FaceOfLine, SelectSeq(obj_file, WellFormedFace))

\* C15: a malformed vertex or face line is skipped without aborting the
\* load, every well-formed vertex and face line is loaded in file order, and
\* the number of skipped lines is reported.
C15_MalformedLinesSkippedAndCounted ==
    pc = "loaded" =>
        /\ WellFormedLinesLoaded
        /\ warnings = SkippedLines(obj_file)

\* C16: every loaded face has at least 3 indices, each the index of a
\* loaded vertex (0 .. number of vertices - 1 in the code, one above here).
C16_FacesReferenceValidVertices ==
    pc = "loaded" =>
        \A i \in DOMAIN faces :
            /\ Len(faces[i]) >= 3
            /\ \A k \in DOMAIN faces[i] : faces[i][k] \in 1 .. Len(vertices)

----------------------------------------------------------------------------
(* process_building and process_all_buildings (specification SpecBatch) *)

\* create_materials, lines 285-293: the entry written for one material
MaterialEntry(mat_name) ==
    << <<"newmtl", " ", mat_name>>,
       <<"Ka", " ", "0.000 0.000 0.000">>,
       <<"Kd", " ", mat_name>>,
       <<"Ks", " ", "0.000 0.000 0.000">>,
       <<"d", " ", mat_name>>,
       <<"illum", " ", "1">>,
       <<>> >>

\* the keys of COLORS, in the order of the dictionary
ColorNames == <<"Roof", "Wall", "Ground">>

\* create_materials: the lines written to <stem>.mtl
MaterialLibrary ==
    << <<"#", " ", "Generated by Building Colorizer v2.0.0">>, <<>> >>
        \o MaterialEntry(ColorNames[1]) \o MaterialEntry(ColorNames[2])
        \o MaterialEntry(ColorNames[3])

\* whether the Python index c - 1 of a list of n items raises IndexError
\* (c is kept one above the code's index)
IndexRaises(c, n) == c > n \/ c <= -n

\* process_mesh raises IndexError at the first centroid (line 263) when a
\* face has an index outside the vertex array
MeshRaises(vs, fs) ==
    \E i \in DOMAIN fs : \E k \in DOMAIN fs[i] : IndexRaises(fs[i][k], Len(vs))

\* the locals of process_building, before it has run
BuildingIdle ==
    /\ vertices = <<>>
    /\ faces = <<>>
    /\ face_index = <<>>
    /\ neighbors = <<>>
    /\ base_class = NoLabel
    /\ face_type = NoLabel
    /\ ground_height = 0
    /\ z_values = <<>>
    /\ classifications = <<>>
    /\ face_idx = 0
    /\ src = <<>>
    /\ src_pos = 0
    /\ dst = NoFile
    /\ obj_file = <<>>
    /\ current_material = NoLabel
    /\ mtl_file = NoFile
    /\ warnings = 0

\* process_building returns: its locals are gone, the next file has no
\* material library yet
ReturnFromBuilding ==
    /\ vertices' = <<>>
    /\ faces' = <<>>
    /\ face_index' = <<>>
    /\ neighbors' = <<>>
    /\ base_class' = NoLabel
    /\ face_type' = NoLabel
    /\ ground_height' = 0
    /\ z_values' = <<>>
    /\ classifications' = <<>>
    /\ face_idx' = 0
    /\ src' = <<>>
    /\ src_pos' = 0
    /\ dst' = NoFile
    /\ obj_file' = <<>>
    /\ current_material' = NoLabel
    /\ mtl_file' = NoFile
    /\ warnings' = 0

\* process_building, lines 338-350: the mesh is loaded; None ends the call,
\* faces with an index outside the vertex array end process_mesh by IndexError
LoadMesh ==
    /\ pc = "building"
    /\ obj_file' = obj_dir[dir_pos]
    /\ LET mesh == load_obj_file(obj_file')
       IN  /\ warnings' = mesh.warnings
           /\ IF ReturnsNone(mesh)
              THEN /\ pc' = "next"
                   /\ UNCHANGED <<vertices, faces>>
              ELSE /\ vertices' = mesh.vertices
                   /\ faces' = mesh.faces
                   /\ pc' = IF MeshRaises(mesh.vertices, mesh.faces)
                            THEN "raise" ELSE "process_mesh"
    /\ UNCHANGED <<toolVars, face_index, smoothVars, groundVars, src, src_pos, dst, current_material,
                   failed_files, processed_files, building_outlines, obj_dir, dir_pos,
                   mtl_file, results, summary, face_idx, classifications>>

\* load_obj_file, lines 175-177: the file cannot be read, None is returned
LoadFails ==
    /\ pc = "building"
    /\ obj_file' = obj_dir[dir_pos]
    /\ pc' = "next"
    /\ UNCHANGED <<toolVars, meshVars, smoothVars, groundVars, src, src_pos, dst, current_material,
                   failed_files, batchVars, face_idx, classifications>>

\* process_building, lines 363-366: an exception of process_mesh is recorded
HandleProcessingError ==
    /\ pc = "raise"
    /\ failed_files' = Append(failed_files, FailureRecord("Processing failed"))
    /\ pc' = "next"
    /\ UNCHANGED <<toolVars, meshVars, smoothVars, groundVars, src, src_pos, dst, obj_file,
                   current_material, batchVars, face_idx, classifications>>

\* process_building, lines 350-354, and create_materials: the labels are
\* returned and the material library is written
CreateMaterials ==
    /\ pc = "done"
    /\ results' = Append(results, <<dir_pos, classifications, ground_height>>)
    /\ mtl_file' = MaterialLibrary
    /\ pc' = "update"
    /\ UNCHANGED <<toolVars, meshVars, smoothVars, groundVars, fileVars, processed_files,
                   building_outlines, obj_dir, dir_pos, warnings, summary, face_idx,
                   classifications>>

\* create_materials, lines 295-296: opening or writing <stem>.mtl raises; the
\* file is missing, empty or cut short, and process_building goes on
FailCreateMaterials ==
    /\ pc = "done"
    /\ results' = Append(results, <<dir_pos, classifications, ground_height>>)
    /\ mtl_file' \in {NoFile, <<>>, SubSeq(MaterialLibrary, 1, 4)}
    /\ failed_files' = Append(failed_files, FailureRecord("Material creation failed"))
    /\ pc' = "update"
    /\ UNCHANGED <<toolVars, meshVars, smoothVars, groundVars, src, src_pos, dst, obj_file,
                   current_material, processed_files, building_outlines, obj_dir, dir_pos,
                   warnings, summary, face_idx, classifications>>

\* process_building, lines 357-360: update_obj_file has returned
FinishBuilding ==
    /\ pc \in {"updated", "update_failed"}
    /\ processed_files' = processed_files + 1
    /\ obj_dir' = [obj_dir EXCEPT ![dir_pos] = obj_file]
    /\ pc' = "next"
    /\ UNCHANGED <<toolVars, meshVars, smoothVars, groundVars, fileVars, building_outlines, dir_pos,
                   mtl_file, warnings, results, summary, face_idx, classifications>>

\* process_all_buildings, lines 372-374: the loop goes to the next file, or
\* to the summary after the last one
NextBuilding ==
    /\ pc = "next"
    /\ ReturnFromBuilding
    /\ IF dir_pos < Len(obj_dir)
       THEN dir_pos' = dir_pos + 1 /\ pc' = "building"
       ELSE dir_pos' = dir_pos /\ pc' = "summary"
    /\ UNCHANGED <<toolVars, classification_cache, classification_changes, failed_files,
                   processed_files, building_outlines, obj_dir, results, summary>>

\* print_summary, lines 376-393
PrintSummary ==
    /\ pc = "summary"
    /\ summary' = [processed |-> processed_files,
                   adjustments |-> classification_changes,
                   failed |-> failed_files]
    /\ pc' = "finished"
    /\ UNCHANGED <<toolVars, meshVars, smoothVars, groundVars, fileVars, processed_files,
                   building_outlines, obj_dir, dir_pos, mtl_file, warnings, results,
                   face_idx, classifications>>

\* the steps of process_building
BuildingStep ==
    \/ LoadMesh
    \/ LoadFails
    \/ StartMesh
    \/ ClassifyFace
    \/ ReturnMesh
    \/ HandleProcessingError
    \/ CreateMaterials
    \/ FailCreateMaterials
    \/ OpenFiles
    \/ CopyLine
    \/ ReplaceFile
    \/ HandleUpdateError
    \/ FailOpen
    \/ FailCopy
    \/ FailReplace
    \/ FinishBuilding

MaxBuildings == 2

\* a ground triangle and a wall triangle, with the material directives of
\* another tool
GroundWallFile ==
    << Join(<< <<"m", "t", "l", "l", "i", "b">>, <<"o", ".", "m", "t", "l">> >>),
       Join(<< <<"v">>, <<"0">>, <<"0">>, <<"0">> >>),
       Join(<< <<"v">>, <<"0", ".", "7", "5">>, <<"0">>, <<"0">> >>),
       Join(<< <<"v">>, <<"0">>, <<"-", "0", ".", "7", "5">>, <<"0">> >>),
       Join(<< <<"v">>, <<"0">>, <<"0">>, <<"1">> >>),
       Join(<< <<"u", "s", "e", "m", "t", "l">>, <<"O">> >>),
       Join(<< <<"f">>, <<"1">>, <<"2">>, <<"3">> >>),
       Join(<< <<"f">>, <<"1">>, <<"2">>, <<"4">> >>) >>

\* one sloped triangle above the ground
RoofFile ==
    << Join(<< <<"v">>, <<"0">>, <<"0">>, <<"0">> >>),
       Join(<< <<"v">>, <<"0", ".", "7", "5">>, <<"0">>, <<"0">> >>),
       Join(<< <<"v">>, <<"0">>, <<"-", "0", ".", "7", "5">>, <<"0", ".", "5">> >>),
       Join(<< <<"f">>, <<"1", "/", "1">>, <<"2", "/", "2">>, <<"3", "/", "3">> >>) >>

\* vertices and no face
NoFaceFile ==
    << Join(<< <<"v">>, <<"0">>, <<"0">>, <<"0">> >>),
       Join(<< <<"v">>, <<"0">>, <<"x">>, <<"0">> >>) >>

\* a face with an index beyond the vertices
BadIndexFile ==
    << Join(<< <<"v">>, <<"0">>, <<"0">>, <<"0">> >>),
       Join(<< <<"f">>, <<"1">>, <<"1">>, <<"9">> >>) >>

\* a face line with two corners before the triangle
ShortFaceFile ==
    << Join(<< <<"v">>, <<"0">>, <<"0">>, <<"0">> >>),
       Join(<< <<"v">>, <<"0", ".", "7", "5">>, <<"0">>, <<"0">> >>),
       Join(<< <<"v">>, <<"0">>, <<"-", "0", ".", "7", "5">>, <<"0">> >>),
       Join(<< <<"f">>, <<"1">>, <<"2">> >>),
       Join(<< <<"f">>, <<"1">>, <<"2">>, <<"3">> >>) >>

MeshFiles == {GroundWallFile, RoofFile, NoFaceFile, BadIndexFile, ShortFaceFile, <<>>}

Directories == UNION {[1 .. n -> MeshFiles] : n \in 0 .. MaxBuildings}

\* the outlines load_all_building_outlines returns: none (also when the
\* GeoJSON cannot be read), one, two
OutlineSets == {{}, {"0.0_0.0"}, {"0.0_0.0", "5.0_5.0"}}

\* the state after __init__ (lines 113-127), when process_all_buildings starts
InitBatch ==
    /\ BuildingIdle
    /\ classification_cache = <<>>
    /\ classification_changes = 0
    /\ failed_files = <<>>
    /\ processed_files = 0
    /\ building_outlines \in OutlineSets
    /\ obj_dir \in Directories
    /\ dir_pos = 0
    /\ results = <<>>
    /\ summary = NoSummary
    /\ ToolsIdle
    /\ pc = "next"

NextBatch == BuildingStep \/ NextBuilding \/ PrintSummary

SpecBatch == InitBatch /\ [][NextBatch]_vars

(* Properties of process_building and process_all_buildings *)

\* file i of the directory has a record among the failed files
Recorded(i) == \E k \in DOMAIN failed_files : failed_files[k][1] = i

\* file i of the directory has been rewritten by update_obj_file
Rewritten(i) == obj_dir[i] # <<>> /\ obj_dir[i][1] = HeaderLine

\* the vertex and face records of a file
Geometry(lines) == SelectSeq(lines, LAMBDA l : IsVertexRecord(l) \/ IsFaceRecord(l))

\* C14: a mesh file that yields no vertex or no face is left as it is, gets
\* no material library, and is reported among the failed files.
C14_EmptyMeshReportedAsFailure ==
    (pc = "next" /\ dir_pos >= 1 /\ obj_file = obj_dir[dir_pos]
        /\ ReturnsNone(load_obj_file(obj_dir[dir_pos]))) =>
            /\ mtl_file = NoFile
            /\ ~Rewritten(dir_pos)
            /\ Recorded(dir_pos)

\* C17: when process_all_buildings is over every file of the directory has
\* been attempted, the summary has been printed after that, and every file
\* that was not rewritten has its failure recorded.
C17_FailuresRecordedBatchCompletes ==
    /\ pc # "finished" => summary = NoSummary
    /\ pc = "finished" =>
          /\ dir_pos = Len(obj_dir)
          /\ summary = [processed |-> processed_files,
                        adjustments |-> classification_changes,
                        failed |-> failed_files]
          /\ \A i \in DOMAIN obj_dir : Rewritten(i) \/ Recorded(i)

\* C18: the labels and the ground height returned for a mesh do not depend
\* on the meshes processed before it: two files of the directory with the
\* same vertex and face records get the same result, each label is the
\* rule-based label of its face, and the cache and the spatial index hold
\* entries of the faces of the current mesh only.
C18_NoCarryOverBetweenMeshes ==
    /\ \A a \in Range(results) : \A b \in Range(results) :
          Geometry(obj_dir[a[1]]) = Geometry(obj_dir[b[1]]) => (a[2] = b[2] /\ a[3] = b[3])
    /\ pc = "done" =>
          /\ classifications =
                [i \in DOMAIN faces |-> RuleLabel(vertices, faces[i], ground_height)]
          /\ DOMAIN classification_cache \subseteq DOMAIN faces
          /\ \A key \in DOMAIN face_index :
                Range(face_index[key]) =
                    {i \in DOMAIN faces : CellKey(vertices, faces[i]) = key}

C18_Witness ==
    /\ pc = "update"
    /\ dir_pos = 2
    /\ processed_files = 1
    /\ Rewritten(1)
    /\ Geometry(obj_dir[1]) = Geometry(obj_dir[2])
    /\ Len(results) = 2
    /\ results[1][2] = <<"Ground", "Wall">>
    /\ results[2][2] = <<"Ground", "Wall">>

\* C19: whatever outlines were loaded, the ground height is the left edge of
\* the lowest significant bucket of the mesh's vertex elevations and every
\* label is the rule-based label of its face for that ground height.
C19_FootprintDoesNotInfluence ==
    pc \in {"classify", "done"} =>
        /\ z_values = [i \in DOMAIN vertices |-> vertices[i][3]]
        /\ NumBins * (ground_height - FirstEdge(z_values))
              = MinOf(SignificantBuckets) * (LastEdge(z_values) - FirstEdge(z_values))
        /\ \A i \in DOMAIN classifications :
              classifications[i] = RuleLabel(vertices, faces[i], ground_height)

C19_Witness ==
    /\ pc = "done"
    /\ Cardinality(building_outlines) = 2
    /\ classifications = <<"Ground", "Wall">>
    /\ ground_height = 0

\* a newmtl entry for the label with Ka, Kd, Ks, d and illum lines
HasEntry(lib, label) ==
    \E k \in 1 .. Len(lib) - 5 :
        /\ lib[k] = <<"newmtl", " ", label>>
        /\ StartsWith(lib[k + 1], <<"Ka", " ">>)
        /\ StartsWith(lib[k + 2], <<"Kd", " ">>)
        /\ StartsWith(lib[k + 3], <<"Ks", " ">>)
        /\ StartsWith(lib[k + 4], <<"d", " ">>)
        /\ StartsWith(lib[k + 5], <<"illum", " ">>)

\* C20: when the mesh has been rewritten it names <stem>.mtl, that file
\* exists, and every label selected by a usemtl line has an entry in it.
C20_MaterialsConsistentWithLabels ==
    pc = "updated" =>
        /\ \E i \in DOMAIN obj_file : obj_file[i] = LibLine
        /\ mtl_file # NoFile
        /\ \A i \in DOMAIN obj_file : \A l \in Labels :
              obj_file[i] = UseLine(l) => HasEntry(mtl_file, l)

(* process_building run a second time on its own output: specification
   SpecRerun.  The first run handles obj_dir[1]; the file it leaves behind,
   without its material directives, is kept as obj_dir[2] and handled by the
   second run. *)

\* a file without its mtllib and usemtl lines
Strip(lines) ==
    SelectSeq(lines, LAMBDA l : ~(IsMtllibDirective(l) \/ IsUsemtlDirective(l)))

InitRerun ==
    /\ BuildingIdle
    /\ classification_cache = <<>>
    /\ classification_changes = 0
    /\ failed_files = <<>>
    /\ processed_files = 0
    /\ building_outlines \in OutlineSets
    /\ obj_dir \in [1 .. 1 -> MeshFiles]
    /\ dir_pos = 1
    /\ results = <<>>
    /\ summary = NoSummary
    /\ ToolsIdle
    /\ pc = "building"

\* the first call of process_building has returned; the material directives
\* are stripped from the file and process_building is called on the result
StripAndReprocess ==
    /\ pc = "next"
    /\ dir_pos = 1
    /\ Len(obj_dir) = 1
    /\ ReturnFromBuilding
    /\ obj_dir' = Append(obj_dir, Strip(obj_dir[1]))
    /\ dir_pos' = 2
    /\ pc' = "building"
    /\ UNCHANGED <<toolVars, classification_cache, classification_changes, failed_files,
                   processed_files, building_outlines, results, summary>>

NextRerun == BuildingStep \/ StripAndReprocess

SpecRerun == InitRerun /\ [][NextRerun]_vars

\* C12: the second run of process_building, on the rewritten file without
\* its material directives, loads a mesh again and produces the label list
\* (and ground height) of the first run.
C12_ReprocessingGivesSameLabels ==
    /\ \A a \in Range(results) : \A b \in Range(results) : a[2] = b[2] /\ a[3] = b[3]
    /\ (dir_pos = 2 /\ Rewritten(1)) =>
          /\ Geometry(obj_dir[2]) = Geometry(obj_dir[1])
          /\ ~ReturnsNone(load_obj_file(obj_dir[2]))
          /\ pc # "raise"
          /\ results # <<>>
          /\ pc = "done" => classifications = results[1][2]

C12_Witness ==
    /\ pc = "update"
    /\ dir_pos = 2
    /\ Rewritten(1)
    /\ obj_dir[2] = Strip(obj_dir[1])
    /\ \E i \in DOMAIN obj_dir[1] : obj_dir[1][i] = UseLine("Wall")
    /\ \A i \in DOMAIN obj_dir[2] : ~IsUsemtlDirective(obj_dir[2][i])
    /\ Len(results) = 2
    /\ results[1][2] = <<"Ground", "Wall">>
    /\ results[2][2] = <<"Ground", "Wall">>

----------------------------------------------------------------------------
(* The neighbour label list (specification SpecSmooth) *)

\* the neighbours that have the label l in the cache
CachedWith(l) ==
    {i \in DOMAIN neighbors :
        neighbors[i] \in DOMAIN classification_cache
            /\ classification_cache[neighbors[i]] = l}

\* C26: a neighbour without a cached label counts for the base label of the
\* face: the result differs from the base label only if the neighbours that
\* have the result as their cached label are more than 0.7 of all
\* neighbours, the counter is incremented exactly then, and when no
\* neighbour has a cached label the face keeps its base label.
C26_UncachedNeighborsCountForBaseLabel ==
    pc = "smooth_done" =>
        /\ (\A i \in DOMAIN neighbors : neighbors[i] \notin DOMAIN classification_cache)
              => (face_type = base_class /\ classification_changes = 0)
        /\ face_type # base_class =>
              /\ ExceedsSeventyPct(Cardinality(CachedWith(face_type)), Len(neighbors))
              /\ classification_changes = 1
        /\ face_type = base_class => classification_changes = 0

C26_Witness ==
    /\ pc = "smooth_done"
    /\ Len(neighbors) = MaxNeighbors
    /\ classification_cache = <<>>
    /\ base_class = "Roof"
    /\ face_type = "Roof"
    /\ classification_changes = 0

----------------------------------------------------------------------------
(* process_building on files whose face lines the loader and the writer do
   not take alike: specification SpecAlign *)

\* a ground triangle on an indented face line, then a wall triangle
IndentedFaceFile ==
    << Join(<< <<"v">>, <<"0">>, <<"0">>, <<"0">> >>),
       Join(<< <<"v">>, <<"0", ".", "7", "5">>, <<"0">>, <<"0">> >>),
       Join(<< <<"v">>, <<"0">>, <<"-", "0", ".", "7", "5">>, <<"0">> >>),
       Join(<< <<"v">>, <<"0">>, <<"0">>, <<"1">> >>),
       <<" ">> \o Join(<< <<"f">>, <<"1">>, <<"2">>, <<"3">> >>),
       Join(<< <<"f">>, <<"1">>, <<"2">>, <<"4">> >>) >>

\* a face line with two corners, the ground triangle on an indented line,
\* then the wall triangle
ShortThenIndentedFile ==
    << Join(<< <<"v">>, <<"0">>, <<"0">>, <<"0">> >>),
       Join(<< <<"v">>, <<"0", ".", "7", "5">>, <<"0">>, <<"0">> >>),
       Join(<< <<"v">>, <<"0">>, <<"-", "0", ".", "7", "5">>, <<"0">> >>),
       Join(<< <<"v">>, <<"0">>, <<"0">>, <<"1">> >>),
       Join(<< <<"f">>, <<"1">>, <<"2">> >>),
       <<" ">> \o Join(<< <<"f">>, <<"1">>, <<"2">>, <<"3">> >>),
       Join(<< <<"f">>, <<"1">>, <<"2">>, <<"4">> >>) >>

AlignFiles ==
    {GroundWallFile, RoofFile, BadIndexFile, ShortFaceFile, IndentedFaceFile,
     ShortThenIndentedFile}

InitAlign ==
    /\ BuildingIdle
    /\ classification_cache = <<>>
    /\ classification_changes = 0
    /\ failed_files = <<>>
    /\ processed_files = 0
    /\ building_outlines \in OutlineSets
    /\ obj_dir \in [1 .. 1 -> AlignFiles]
    /\ dir_pos = 1
    /\ results = <<>>
    /\ summary = NoSummary
    /\ ToolsIdle
    /\ pc = "building"

NextAlign == BuildingStep

SpecAlign == InitAlign /\ [][NextAlign]_vars

\* the lines of a file from which load_obj_file makes a face, in file order
LoadedFaceLines(lines) == {i \in DOMAIN lines : WellFormedFace(lines[i])}

\* the position among the loaded faces of the face made from line i
FaceNumber(lines, i) == Cardinality({j \in LoadedFaceLines(lines) : j <= i})

\* the label of the most recent usemtl line before line i
GoverningLabel(lines, i) ==
    LET uses == {j \in 1 .. (i - 1) : \E l \in Labels : lines[j] = UseLine(l)}
    IN  IF uses = {} THEN NoLabel
        ELSE CHOOSE l \in Labels : lines[MaxOf(uses)] = UseLine(l)

\* C28: in the rewritten mesh every line from which the loader made a face
\* is governed by the label process_mesh gave to that face.
C28_FaceLineGovernedByItsLabel ==
    pc = "updated" =>
        \A i \in LoadedFaceLines(obj_file) :
            GoverningLabel(obj_file, i) = classifications[FaceNumber(obj_file, i)]

----------------------------------------------------------------------------
(* The processed counter (specification SpecBatch) *)

\* C29: between two calls of process_building the processed counter is the
\* number of files handled so far that were rewritten and have no record
\* among the failed files.
C29_ProcessedCountsOnlySuccesses ==
    pc \in {"next", "summary", "finished"} =>
        processed_files =
            Cardinality({i \in 1 .. dir_pos : Rewritten(i) /\ ~Recorded(i)})

----------------------------------------------------------------------------
(* src/copyNrename.py, copy_and_rename_csv_advanced: specification SpecCopy.
   The root directory holds folders and files; folder F may hold the source
   file F/<target_subdir>/<csv_filename>.  A file is its content, or NoFile. *)

MaxFolders == 2

Folders == {"A", "B", "C"}

\* the name <folder>.csv and the name csv_filename, in the root directory
CsvName(folder) == <<folder, ".csv">>
CsvFilename == <<"buildings_data", ".csv">>

RootNames == {CsvName(f) : f \in Folders} \cup {CsvFilename}

\* the content of the source file of a folder, of a file <folder>.csv that
\* is in the root before the call, and of a file csv_filename there
SourceContent(folder) == <<"source", folder>>
OldContent(folder) == <<"old", folder>>
OtherContent == <<"other">>

\* lines 137-144: the results dict
NewResults ==
    [success |-> TRUE, copied_files |-> <<>>, failed_files |-> <<>>,
     skipped_files |-> <<>>, backed_up_files |-> <<>>, total_processed |-> 0]

InitCopy ==
    /\ ColorizerIdle
    /\ NotCopyIdle
    /\ root_exists \in BOOLEAN
    /\ \E fs \in SUBSET Folders :
          /\ Cardinality(fs) <= MaxFolders
          /\ root_exists = FALSE => fs = {}
          /\ to_visit = fs
          /\ \E has \in SUBSET fs :
                sources = [f \in fs |-> IF f \in has THEN SourceContent(f) ELSE NoFile]
          /\ \E old \in SUBSET fs : \E other \in BOOLEAN :
                /\ root_exists = FALSE => (old = {} /\ other = FALSE)
                /\ root_files =
                      [n \in RootNames |->
                          IF n = CsvFilename
                          THEN (IF other THEN OtherContent ELSE NoFile)
                          ELSE IF \E f \in old : n = CsvName(f)
                               THEN OldContent(CHOOSE f \in old : n = CsvName(f))
                               ELSE NoFile]
    /\ overwrite \in BOOLEAN
    /\ backup \in BOOLEAN
    /\ copy_results = <<>>
    /\ pc = "copy_start"

\* lines 134-135: the root directory does not exist
RootMissing ==
    /\ pc = "copy_start"
    /\ ~root_exists
    /\ copy_results' = [success |-> FALSE, error |-> "Root directory not found"]
    /\ pc' = "copy_done"
    /\ UNCHANGED <<colorizerVars, notCopyVars, root_exists, root_files, sources, to_visit, overwrite,
                   backup>>

\* lines 137-152: the results dict is created, the loop starts
StartCopy ==
    /\ pc = "copy_start"
    /\ root_exists
    /\ copy_results' = NewResults
    /\ pc' = "copy_loop"
    /\ UNCHANGED <<colorizerVars, notCopyVars, root_exists, root_files, sources, to_visit, overwrite,
                   backup>>

Processed(res) == [res EXCEPT !.total_processed = @ + 1]

\* lines 164-170: the folder has no source file
SkipMissingSource ==
    /\ pc = "copy_loop"
    /\ \E folder \in to_visit :
          /\ sources[folder] = NoFile
          /\ to_visit' = to_visit \ {folder}
          /\ copy_results' =
                [Processed(copy_results) EXCEPT
                    !.skipped_files = Append(@, <<folder, "Source file not found">>)]
    /\ UNCHANGED <<colorizerVars, notCopyVars, root_exists, root_files, sources, overwrite, backup, pc>>

\* lines 173-189: csv_target_path is the root directory (line 158), which
\* exists; the backup copies a directory with shutil.copy2, which raises and
\* is reported by a print only; without overwrite the folder is skipped
SkipExistingTarget ==
    /\ pc = "copy_loop"
    /\ ~overwrite
    /\ \E folder \in to_visit :
          /\ sources[folder] # NoFile
          /\ to_visit' = to_visit \ {folder}
          /\ copy_results' =
                [Processed(copy_results) EXCEPT
                    !.skipped_files =
                        Append(@, <<folder, "Target file exists and overwrite=False">>)]
    /\ UNCHANGED <<colorizerVars, notCopyVars, root_exists, root_files, sources, overwrite, backup, pc>>

\* lines 193-200: shutil.copy2 into the root directory writes
\* <root>/<csv_filename>; os.rename moves the source file to <root>/F.csv
CopyAndRename ==
    /\ pc = "copy_loop"
    /\ overwrite
    /\ \E folder \in to_visit :
          /\ sources[folder] # NoFile
          /\ to_visit' = to_visit \ {folder}
          /\ root_files' = [root_files EXCEPT ![CsvFilename] = sources[folder],
                                              ![CsvName(folder)] = sources[folder]]
          /\ sources' = [sources EXCEPT ![folder] = NoFile]
          /\ copy_results' =
                [Processed(copy_results) EXCEPT !.copied_files = Append(@, folder)]
    /\ UNCHANGED <<colorizerVars, notCopyVars, root_exists, overwrite, backup, pc>>

\* lines 193, 202-207: shutil.copy2 raises
FailCopy2 ==
    /\ pc = "copy_loop"
    /\ overwrite
    /\ \E folder \in to_visit :
          /\ sources[folder] # NoFile
          /\ to_visit' = to_visit \ {folder}
          /\ copy_results' =
                [Processed(copy_results) EXCEPT !.failed_files = Append(@, folder)]
    /\ UNCHANGED <<colorizerVars, notCopyVars, root_exists, root_files, sources, overwrite, backup, pc>>

\* lines 193-199, 202-207: shutil.copy2 has written <root>/<csv_filename>
\* and the folder is among the copied files when os.rename raises
FailRename ==
    /\ pc = "copy_loop"
    /\ overwrite
    /\ \E folder \in to_visit :
          /\ sources[folder] # NoFile
          /\ to_visit' = to_visit \ {folder}
          /\ root_files' = [root_files EXCEPT ![CsvFilename] = sources[folder]]
          /\ copy_results' =
                [Processed(copy_results) EXCEPT !.copied_files = Append(@, folder),
                                                !.failed_files = Append(@, folder)]
    /\ UNCHANGED <<colorizerVars, notCopyVars, root_exists, sources, overwrite, backup, pc>>

\* lines 209-222: the loop is over, the summary is printed and results returned
ReturnCopy ==
    /\ pc = "copy_loop"
    /\ to_visit = {}
    /\ pc' = "copy_done"
    /\ UNCHANGED <<colorizerVars, notCopyVars, copyVars>>

NextCopy ==
    \/ RootMissing
    \/ StartCopy
    \/ SkipMissingSource
    \/ SkipExistingTarget
    \/ CopyAndRename
    \/ FailCopy2
    \/ FailRename
    \/ ReturnCopy

SpecCopy == InitCopy /\ [][NextCopy]_vars

\* C21: when the call has returned, every folder F that has a source file
\* has <root>/F.csv with the source's content, or, without overwrite, the
\* <root>/F.csv that was there before the call; no step changes or removes
\* a source file, and the only files a step creates or changes in the root
\* are files F.csv of a folder F with a source file.
C21_CopiesAndLeavesSourcesAlone ==
    /\ [](pc = "copy_done" /\ root_exists =>
             \A f \in DOMAIN sources :
                 sources[f] # NoFile =>
                     \/ root_files[CsvName(f)] = sources[f]
                     \/ ~overwrite /\ root_files[CsvName(f)] = OldContent(f))
    /\ [][/\ sources' = sources
          /\ \A n \in RootNames :
                root_files'[n] # root_files[n] =>
                    \E f \in DOMAIN sources :
                        n = CsvName(f) /\ root_files'[n] = sources[f]]_vars

----------------------------------------------------------------------------
(* src/lod2merge.py, CityGMLMerger: specification SpecMerge.  A string is
   the sequence of its characters.  An element is its tag (namespace and
   local name), its gml:id, id and xlink:href attributes ("" when absent),
   its text and its children. *)

UuidPrefix == <<"U", "U", "I", "D", "_">>
HashUuidPrefix == <<"#">> \o UuidPrefix

\* str.replace(old, new, 1)
RECURSIVE Replace1(_, _, _)
Replace1(str, old, new) ==
    IF StartsWith(str, old) THEN new \o SubSeq(str, Len(old) + 1, Len(str))
    ELSE IF str = <<>> THEN <<>>
    ELSE <<Head(str)>> \o Replace1(Tail(str), old, new)

\* self.namespaces['core'], self.namespaces['gml'] and other namespaces
Core == "http://www.opengis.net/citygml/2.0"
Core1 == "http://www.opengis.net/citygml/1.0"
Bldg == "http://www.opengis.net/citygml/building/2.0"
Gml == "http://www.opengis.net/gml"

Element(tag, gml_id, id, href, text, children) ==
    [tag |-> tag, gml_id |-> gml_id, id |-> id, href |-> href, text |-> text,
     children |-> children]

\* update_ids_with_prefix, lines 195-219
RenamedId(value, prefix) ==
    IF value # <<>> /\ StartsWith(value, UuidPrefix)
    THEN Replace1(value, UuidPrefix, prefix \o <<"_">>)
    ELSE value

RECURSIVE update_ids_with_prefix(_, _)
update_ids_with_prefix(element, prefix) ==
    [element EXCEPT
        !.gml_id = RenamedId(element.gml_id, prefix),
        !.id = RenamedId(element.id, prefix),
        !.children = [i \in DOMAIN element.children |->
                         update_ids_with_prefix(element.children[i], prefix)]]

RenamedHrefMutKeep(value, prefix) == value

\* update_id_references, lines 229-233: the xlink:href attribute
RenamedHref(value, prefix) ==
    IF value # <<>> /\ StartsWith(value, HashUuidPrefix)
    THEN Replace1(value, HashUuidPrefix, <<"#">> \o prefix \o <<"_">>)
    ELSE value

\* update_id_references, lines 236-240: every attribute value
RenamedAttribute(value, prefix) ==
    IF StartsWith(value, UuidPrefix)
    THEN Replace1(value, UuidPrefix, prefix \o <<"_">>)
    ELSE value

RECURSIVE update_id_references(_, _)
update_id_references(element, prefix) ==
    [element EXCEPT
        !.gml_id = RenamedAttribute(element.gml_id, prefix),
        !.id = RenamedAttribute(element.id, prefix),
        !.href = RenamedAttribute(RenamedHref(element.href, prefix), prefix),
        !.children = [i \in DOMAIN element.children |->
                         update_id_references(element.children[i], prefix)]]

\* update_descriptions, lines 247-261, with the default author; a text is a
\* sequence of phrases
CreatedByConverter == "created by converter"
CreatedByAuthor == "created by Fairuz Akmal Pradana"

RECURSIVE update_descriptions(_)
update_descriptions(element) ==
    [element EXCEPT
        !.text = IF element.tag = <<Gml, "description">>
                 THEN [i \in DOMAIN element.text |->
                          IF element.text[i] = CreatedByConverter
                          THEN CreatedByAuthor ELSE element.text[i]]
                 ELSE element.text,
        !.children = [i \in DOMAIN element.children |->
                         update_descriptions(element.children[i])]]

\* the descendants of an element in document order
RECURSIVE Descendants(_)
Concat(seqs) ==
    LET C[k \in 0 .. Len(seqs)] == IF k = 0 THEN <<>> ELSE C[k - 1] \o seqs[k]
    IN  C[Len(seqs)]
Descendants(element) ==
    Concat([i \in DOMAIN element.children |->
               <<element.children[i]>> \o Descendants(element.children[i])])

\* root.findall(".//{core}cityObjectMember"), line 308
FindCityObjectMembers(root) ==
    SelectSeq(Descendants(root), LAMBDA e : e.tag = <<Core, "cityObjectMember">>)

\* lines 310-321: the copy of a city object, renamed
CopyCityObject(city_object, prefix) ==
    update_descriptions(
        update_id_references(update_ids_with_prefix(city_object, prefix), prefix))

\* min(a, b) and max(a, b) of Python: the first argument unless the second
\* is smaller (larger)
Min2(a, b) == IF b < a THEN b ELSE a
Max2(a, b) == IF b > a THEN b ELSE a

\* calculate_merged_bounds, lines 95-119
calculate_merged_boundsMutLastSrs(bounds_list) ==
    IF bounds_list = <<>> THEN NoBounds
    ELSE LET M[k \in 1 .. Len(bounds_list)] ==
                 IF k = 1 THEN bounds_list[1]
                 ELSE [lower_x |-> Min2(M[k - 1].lower_x, bounds_list[k].lower_x),
                       lower_y |-> Min2(M[k - 1].lower_y, bounds_list[k].lower_y),
                       lower_z |-> Min2(M[k - 1].lower_z, bounds_list[k].lower_z),
                       upper_x |-> Max2(M[k - 1].upper_x, bounds_list[k].upper_x),
                       upper_y |-> Max2(M[k - 1].upper_y, bounds_list[k].upper_y),
                       upper_z |-> Max2(M[k - 1].upper_z, bounds_list[k].upper_z),
                       srs |-> bounds_list[k].srs]
         IN  M[Len(bounds_list)]
calculate_merged_bounds(bounds_list) ==
    IF bounds_list = <<>> THEN NoBounds
    ELSE LET M[k \in 1 .. Len(bounds_list)] ==
                 IF k = 1 THEN bounds_list[1]
                 ELSE [lower_x |-> Min2(M[k - 1].lower_x, bounds_list[k].lower_x),
                       lower_y |-> Min2(M[k - 1].lower_y, bounds_list[k].lower_y),
                       lower_z |-> Min2(M[k - 1].lower_z, bounds_list[k].lower_z),
                       upper_x |-> Max2(M[k - 1].upper_x, bounds_list[k].upper_x),
                       upper_y |-> Max2(M[k - 1].upper_y, bounds_list[k].upper_y),
                       upper_z |-> Max2(M[k - 1].upper_z, bounds_list[k].upper_z),
                       srs |-> M[k - 1].srs]
         IN  M[Len(bounds_list)]

(* calculate_merged_bounds on its own: specification SpecBounds *)

MaxBoxes == 3

Box(lx, ly, lz, ux, uy, uz, srs) ==
    [lower_x |-> lx, lower_y |-> ly, lower_z |-> lz,
     upper_x |-> ux, upper_y |-> uy, upper_z |-> uz, srs |-> srs]

\* boxes that overlap, contain one another, lie apart and have negative
\* coordinates, in two reference systems
Boxes ==
    { Box(0, 0, 0, 2, 2, 2, "EPSG:32748"),
      Box(1, 1, 1, 3, 3, 3, "EPSG:32748"),
      Box(-4, 5, 0, -3, 6, 9, "EPSG:4326"),
      Box(0, 0, 0, 9, 9, 1, ""),
      Box(1, -7, 1, 1, -7, 1, "EPSG:4326") }

BoxLists == UNION {[1 .. n -> Boxes] : n \in 0 .. MaxBoxes}

InitBounds ==
    /\ ColorizerIdle
    /\ NotMergeIdle
    /\ gml_dir = <<>>
    /\ valid_files = <<>>
    /\ merge_pos = 0
    /\ city_objects = <<>>
    /\ all_bounds \in BoxLists
    /\ merged_bounds = NoBounds
    /\ output_name = <<>>
    /\ output_file = NoOutput
    /\ exit_status = Running
    /\ pc = "bounds"

\* calculate_merged_bounds(all_bounds)
CalculateBounds ==
    /\ pc = "bounds"
    /\ merged_bounds' = calculate_merged_bounds(all_bounds)
    /\ pc' = "bounds_done"
    /\ UNCHANGED <<colorizerVars, notMergeVars, gml_dir, valid_files, merge_pos,
                   city_objects, all_bounds, output_name, output_file, exit_status>>

NextBounds == CalculateBounds

SpecBounds == InitBounds /\ [][NextBounds]_vars

\* the lists with the same boxes in another order
Reorderings(list) ==
    {[i \in DOMAIN list |-> list[p[i]]] :
        p \in {q \in [DOMAIN list -> DOMAIN list] : \A i \in DOMAIN list : \E j \in DOMAIN list : q[j] = i}}

Coordinates(box) ==
    <<box.lower_x, box.lower_y, box.lower_z, box.upper_x, box.upper_y, box.upper_z>>

\* C24: the result is None for the empty list; otherwise each lower
\* coordinate is the least and each upper coordinate the greatest of the
\* boxes', the srs is the first box's, and the coordinates are the same for
\* the boxes in any other order.
C24_TightestBoxOrderIndependent ==
    pc = "bounds_done" =>
        IF all_bounds = <<>> THEN merged_bounds = NoBounds
        ELSE /\ merged_bounds.lower_x = MinOf({all_bounds[i].lower_x : i \in DOMAIN all_bounds})
             /\ merged_bounds.lower_y = MinOf({all_bounds[i].lower_y : i \in DOMAIN all_bounds})
             /\ merged_bounds.lower_z = MinOf({all_bounds[i].lower_z : i \in DOMAIN all_bounds})
             /\ merged_bounds.upper_x = MaxOf({all_bounds[i].upper_x : i \in DOMAIN all_bounds})
             /\ merged_bounds.upper_y = MaxOf({all_bounds[i].upper_y : i \in DOMAIN all_bounds})
             /\ merged_bounds.upper_z = MaxOf({all_bounds[i].upper_z : i \in DOMAIN all_bounds})
             /\ merged_bounds.srs = all_bounds[1].srs
             /\ \A other \in Reorderings(all_bounds) :
                   Coordinates(calculate_merged_bounds(other)) = Coordinates(merged_bounds)

C24_Witness ==
    /\ pc = "bounds_done"
    /\ Len(all_bounds) = MaxBoxes
    /\ all_bounds[1].srs # all_bounds[MaxBoxes].srs
    /\ all_bounds[1] # all_bounds[2]
    /\ merged_bounds.lower_x < all_bounds[1].lower_x
    /\ merged_bounds.upper_z > all_bounds[1].upper_z
    /\ merged_bounds \notin Boxes

----------------------------------------------------------------------------
(* merge_files on a directory of documents: specification SpecMerge *)

MaxDocs == 2

\* ids, with and without the UUID_ prefix
IdA == UuidPrefix \o <<"a">>
IdB == <<"b">>
IdC == UuidPrefix \o UuidPrefix \o <<"c">>

Leaf(tag, gml_id, id, href, text) == Element(tag, gml_id, id, href, text, <<>>)

\* a city object: a cityObjectMember with a building that has the given
\* gml:id, a description, and a child referring to the building
CityObject(gml_id, href) ==
    Element(<<Core, "cityObjectMember">>, <<>>, <<>>, <<>>, <<>>,
        << Element(<<Bldg, "Building">>, gml_id, <<>>, <<>>, <<>>,
              << Leaf(<<Gml, "description">>, <<>>, <<>>, <<>>, <<"10, ", CreatedByConverter>>),
                 Leaf(<<Bldg, "lod2Solid">>, <<>>, gml_id, href, <<>>) >>) >>)

\* a city object of a CityGML 1.0 document
CityObject1 ==
    Element(<<Core1, "cityObjectMember">>, <<>>, <<>>, <<>>, <<>>,
        << Leaf(<<Bldg, "Building">>, IdA, <<>>, <<>>, <<>>) >>)

\* a city object that holds another one
NestedCityObject ==
    Element(<<Core, "cityObjectMember">>, <<>>, <<>>, <<>>, <<>>,
        << Element(<<Bldg, "Building">>, IdA, <<>>, <<>>, <<>>,
              << CityObject(IdB, <<"#">> \o IdA) >>) >>)

\* a document: whether ET.parse accepts it, its envelope if it has one that
\* extract_bounds can read, and its root element
Document(parses, bounds, root) == [parses |-> parses, bounds |-> bounds, root |-> root]

CityModel(namespace, members) ==
    Element(<<namespace, "CityModel">>, <<>>, <<>>, <<>>, <<>>, members)

MemberLists ==
    { <<>>,
      <<CityObject(IdA, <<"#">> \o IdA)>>,
      <<CityObject(IdB, <<"#">> \o IdB)>>,
      <<CityObject(IdC, IdC)>>,
      <<CityObject(IdA, <<"#">> \o IdA), CityObject(IdB, <<"#">> \o IdA)>>,
      <<CityObject(IdB, <<"#">> \o IdB), CityObject(IdA, <<"#">> \o IdA)>>,
      <<CityObject(IdA, <<"#">> \o IdA), CityObject(IdA, <<"#">> \o IdA)>> }

Documents ==
    { Document(TRUE, b, CityModel(Core, members)) :
        b \in {NoBounds, Box(1, -7, 1, 3, 3, 3, "EPSG:32748")},
        members \in MemberLists }
    \cup { Document(TRUE, Box(0, 0, 0, 2, 2, 2, "EPSG:32748"),
                    CityModel(Core1, <<CityObject1>>)),
           Document(TRUE, NoBounds, CityModel(Core, <<NestedCityObject>>)),
           Document(TRUE, NoBounds,
                    Element(<<Gml, "FeatureCollection">>, <<>>, <<>>, <<>>, <<>>, <<>>)),
           Document(FALSE, NoBounds, CityModel(Core, <<>>)) }

\* the --name values: the default, a short one, and one that starts with UUID_
OutputNames ==
    { <<"M", "e", "r", "g", "e", "d", "_", "C", "i", "t", "y", "M", "o", "d", "e", "l">>,
      <<"A", "G">>,
      UuidPrefix \o <<"2">> }

\* a directory of n files, by file name
Directory(n) == [1 .. n -> Documents]

\* validate_citygml_file, lines 70-84: the root tag ends with CityModel
validate_citygml_file(doc) == doc.parses /\ doc.root.tag[2] = "CityModel"

\* sorted(names)
RECURSIVE Sorted(_)
Sorted(names) ==
    IF names = {} THEN <<>>
    ELSE <<MinOf(names)>> \o Sorted(names \ {MinOf(names)})

\* get_citygml_files, lines 54-59: the *.gml and *.xml files, sorted
get_citygml_files(dir) == Sorted(DOMAIN dir)

InitMerge ==
    /\ ColorizerIdle
    /\ NotMergeIdle
    /\ gml_dir \in UNION {Directory(n) : n \in 0 .. MaxDocs}
    /\ valid_files = <<>>
    /\ merge_pos = 0
    /\ city_objects = <<>>
    /\ all_bounds = <<>>
    /\ merged_bounds = NoBounds
    /\ output_name \in OutputNames
    /\ output_file = NoOutput
    /\ exit_status = Running
    /\ pc = "merge_start"

\* merge_files, lines 366-381: the files are listed and validated
StartMerge ==
    /\ pc = "merge_start"
    /\ LET file_paths == get_citygml_files(gml_dir)
           valid == SelectSeq(file_paths, LAMBDA f : validate_citygml_file(gml_dir[f]))
       IN  /\ valid # <<>>
           /\ valid_files' = valid
    /\ pc' = "merge_loop"
    /\ UNCHANGED <<colorizerVars, notMergeVars, gml_dir, merge_pos, city_objects, all_bounds,
                   merged_bounds, output_name, output_file, exit_status>>

\* merge_files, lines 57, 377-378, 399-401: no file, or no valid file; the
\* exception is printed and the process exits with status 1
ExitNoValidFiles ==
    /\ pc = "merge_start"
    /\ \A f \in DOMAIN gml_dir : ~validate_citygml_file(gml_dir[f])
    /\ exit_status' = 1
    /\ pc' = "exited"
    /\ UNCHANGED <<colorizerVars, notMergeVars, gml_dir, valid_files, merge_pos, city_objects,
                   all_bounds, merged_bounds, output_name, output_file>>

\* extract_bounds, lines 130-162
extract_bounds(doc) == doc.bounds

\* create_merged_citygml, lines 295-321: one file of the loop
ProcessFile ==
    /\ pc = "merge_loop"
    /\ merge_pos < Len(valid_files)
    /\ LET doc == gml_dir[valid_files[merge_pos + 1]]
           found == FindCityObjectMembers(doc.root)
       IN  /\ all_bounds' = IF extract_bounds(doc) # NoBounds
                            THEN Append(all_bounds, extract_bounds(doc))
                            ELSE all_bounds
           /\ city_objects' =
                 city_objects \o [i \in DOMAIN found |-> CopyCityObject(found[i], output_name)]
    /\ merge_pos' = merge_pos + 1
    /\ UNCHANGED <<colorizerVars, notMergeVars, gml_dir, valid_files, merged_bounds,
                   output_name, output_file, exit_status, pc>>

\* create_merged_citygml, lines 323-325: the file cannot be parsed any more;
\* it is reported by a print and left out
FailProcessFile ==
    /\ pc = "merge_loop"
    /\ merge_pos < Len(valid_files)
    /\ merge_pos' = merge_pos + 1
    /\ UNCHANGED <<colorizerVars, notMergeVars, gml_dir, valid_files, city_objects,
                   all_bounds, merged_bounds, output_name, output_file, exit_status, pc>>

\* create_merged_citygml, lines 327-347: the merged tree
BuildMergedTree ==
    /\ pc = "merge_loop"
    /\ merge_pos = Len(valid_files)
    /\ merged_bounds' = IF all_bounds # <<>> THEN calculate_merged_bounds(all_bounds)
                        ELSE merged_bounds
    /\ pc' = "write"
    /\ UNCHANGED <<colorizerVars, notMergeVars, gml_dir, valid_files, merge_pos, city_objects,
                   all_bounds, output_name, output_file, exit_status>>

\* the document create_merged_citygml returns
MergedDocument ==
    [written |-> TRUE, name |-> output_name, bounds |-> merged_bounds,
     members |-> city_objects, header |-> FALSE]

\* merge_files, lines 389-394: the merged tree is written
WriteOutput ==
    /\ pc = "write"
    /\ output_file' = MergedDocument
    /\ pc' = "header"
    /\ UNCHANGED <<colorizerVars, notMergeVars, gml_dir, valid_files, merge_pos, city_objects,
                   all_bounds, merged_bounds, output_name, exit_status>>

\* merge_files, lines 389-401: writing raises; the file is missing or cut
\* short and the process exits with status 1
FailWriteOutput ==
    /\ pc = "write"
    /\ output_file' \in {NoOutput, [MergedDocument EXCEPT !.members = <<>>]}
    /\ exit_status' = 1
    /\ pc' = "exited"
    /\ UNCHANGED <<colorizerVars, notMergeVars, gml_dir, valid_files, merge_pos, city_objects,
                   all_bounds, merged_bounds, output_name>>

\* add_header_comment, lines 403-431
add_header_comment ==
    /\ pc = "header"
    /\ output_file' = [output_file EXCEPT !.header = TRUE]
    /\ pc' = "merge_done"
    /\ UNCHANGED <<colorizerVars, notMergeVars, gml_dir, valid_files, merge_pos, city_objects,
                   all_bounds, merged_bounds, output_name, exit_status>>

\* add_header_comment, lines 433-434: reading or writing back raises, which
\* is reported by a print; the file is as it was or empty
FailHeaderComment ==
    /\ pc = "header"
    /\ output_file' \in {output_file, [output_file EXCEPT !.members = <<>>]}
    /\ pc' = "merge_done"
    /\ UNCHANGED <<colorizerVars, notMergeVars, gml_dir, valid_files, merge_pos, city_objects,
                   all_bounds, merged_bounds, output_name, exit_status>>

NextMerge ==
    \/ StartMerge
    \/ ExitNoValidFiles
    \/ ProcessFile
    \/ FailProcessFile
    \/ BuildMergedTree
    \/ WriteOutput
    \/ FailWriteOutput
    \/ add_header_comment
    \/ FailHeaderComment

SpecMerge == InitMerge /\ [][NextMerge]_vars

(* Properties of the merger (specification SpecMerge) *)

\* an element and its descendants, in document order
Subtree(element) == <<element>> \o Descendants(element)

\* the file the loop of create_merged_citygml is at
CurrentDocument == gml_dir[valid_files[merge_pos + 1]]

\* the city objects appended by a step
Appended == SubSeq(city_objects', Len(city_objects) + 1, Len(city_objects'))

StartsWithUuid(str) == StartsWith(str, <<"U", "U", "I", "D">>)

AfterPrefix(str, prefix) == SubSeq(str, Len(prefix) + 1, Len(str))

\* C22: for a name that does not start with UUID, the copy of a city object
\* has no gml:id that starts with UUID_: an id UUID_x has become <name>_x, an
\* href #UUID_x has become #<name>_x, and an href that was '#' followed by
\* the gml:id of an element of the city object is '#' followed by the new
\* gml:id of that element.
C22_IdsRenamedAndReferencesFollow ==
    [][(city_objects' # city_objects /\ ~StartsWithUuid(output_name)) =>
          LET found == FindCityObjectMembers(CurrentDocument.root)
          IN  /\ Len(Appended) = Len(found)
              /\ \A k \in DOMAIN found :
                    LET old == Subtree(found[k])
                        new == Subtree(Appended[k])
                    IN  /\ Len(new) = Len(old)
                        /\ \A j \in DOMAIN old :
                              /\ ~StartsWith(new[j].gml_id, UuidPrefix)
                              /\ StartsWith(old[j].gml_id, UuidPrefix) =>
                                    new[j].gml_id = output_name \o <<"_">>
                                        \o AfterPrefix(old[j].gml_id, UuidPrefix)
                              /\ ~StartsWith(old[j].gml_id, UuidPrefix) =>
                                    new[j].gml_id = old[j].gml_id
                              /\ StartsWith(old[j].href, HashUuidPrefix) =>
                                    new[j].href = <<"#">> \o output_name \o <<"_">>
                                        \o AfterPrefix(old[j].href, HashUuidPrefix)
                              /\ \A i \in DOMAIN old :
                                    (old[i].gml_id # <<>>
                                        /\ old[j].href = <<"#">> \o old[i].gml_id) =>
                                            new[j].href = <<"#">> \o new[i].gml_id]_vars

C22_Witness ==
    /\ pc = "merge_done"
    /\ output_name = <<"A", "G">>
    /\ output_file.header
    /\ Len(output_file.members) = 2
    /\ \E k \in DOMAIN output_file.members :
          LET new == Subtree(output_file.members[k])
          IN  \E i \in DOMAIN new : \E j \in DOMAIN new :
                 /\ new[i].gml_id = <<"A", "G", "_", "a">>
                 /\ new[j].href = <<"#", "A", "G", "_", "a">>

\* the cityObjectMember elements of a document
OwnMembers(doc) ==
    SelectSeq(doc.root.children, LAMBDA e : e.tag[2] = "cityObjectMember")

\* C23: the valid files are taken in sorted order; each file the loop
\* handles adds one copy of each of its cityObjectMember elements, in
\* document order, or nothing at all when it cannot be read any more; the
\* written document holds the collected city objects; when no file is valid
\* the process exits with status 1 and nothing is written.
C23_EveryCityObjectPreserved ==
    /\ [](pc = "merge_loop" =>
             valid_files = SelectSeq(Sorted(DOMAIN gml_dir),
                                     LAMBDA f : validate_citygml_file(gml_dir[f])))
    /\ [](pc = "header" => output_file.members = city_objects)
    /\ []((pc = "exited" /\ valid_files = <<>>) =>
             (exit_status = 1 /\ output_file = NoOutput))
    /\ [][(pc = "merge_loop" /\ merge_pos' = merge_pos + 1) =>
             \/ city_objects' = city_objects /\ all_bounds' = all_bounds
             \/ LET own == OwnMembers(CurrentDocument)
                IN  city_objects' =
                        city_objects \o [i \in DOMAIN own |->
                                            CopyCityObject(own[i], output_name)]]_vars

----------------------------------------------------------------------------
(* src/attribute_gen.py, OBJToCSVGenerator.create_admin_codes and
   generate_nib: specification SpecNib.  The distinct names of a column are
   numbered 1, 2, ... in the order unique() returns them; 0 is a name that
   is in no column (such as 'UNKNOWN').  Centroid coordinates are counted in
   thousandths. *)

MaxNames == 100

DigitChars == <<"0", "1", "2", "3", "4", "5", "6", "7", "8", "9">>

\* str(n) for an integer n >= 0
RECURSIVE Str(_)
Str(n) ==
    IF n < 10 THEN <<DigitChars[n + 1]>>
    ELSE Str(n \div 10) \o <<DigitChars[(n % 10) + 1]>>

\* s.zfill(width)
RECURSIVE ZFill(_, _)
ZFill(str, width) == IF Len(str) >= width THEN str ELSE ZFill(<<"0">> \o str, width)

\* s[-n:]
LastChars(str, n) == IF Len(str) <= n THEN str ELSE SubSeq(str, Len(str) - n + 1, Len(str))

\* f"{i+1:02d}" for the names in order, lines 86-87
AdminCodes(count) == [i \in 1 .. count |-> ZFill(Str(i), 2)]

\* codes.get(name, "00"), lines 227-228
CodeOf(codes, name) == IF name \in DOMAIN codes THEN codes[name] ELSE <<"0", "0">>

\* int(abs(x)) for a coordinate in thousandths
IntAbs(x) == Abs(x) \div 1000

\* str(int(abs(x)))[-5:].zfill(5), lines 231-232
CoordinateDigits(x) == ZFill(LastChars(Str(IntAbs(x)), 5), 5)

\* generate_nib, lines 225-235
generate_nib(kota, kecamatan, centroid_x, centroid_y) ==
    CodeOf(kota_codes, kota) \o CodeOf(kecamatan_codes, kecamatan)
        \o CoordinateDigits(centroid_x) \o CoordinateDigits(centroid_y)

NameCounts == {0, 1, MaxNames - 1, MaxNames}

Centroids == {0, 7999, 12345678, -98765432, 1234567890, -1}

InitNib ==
    /\ ColorizerIdle
    /\ NotNibIdle
    /\ kota_codes = <<>>
    /\ kecamatan_codes = <<>>
    /\ \E nk \in NameCounts : \E nc \in NameCounts :
          \E k \in {0, 1, nk} : \E c \in {0, 1, nc} :
             \E x \in Centroids : \E y \in {0, -98765432, 1234567890} :
                nib_args = [unique_kota |-> nk, unique_kecamatan |-> nc,
                            kota |-> k, kecamatan |-> c,
                            centroid_x |-> x, centroid_y |-> y]
    /\ nib = <<>>
    /\ pc = "admin_codes"

\* create_admin_codes, lines 78-94
create_admin_codes ==
    /\ pc = "admin_codes"
    /\ kota_codes' = AdminCodes(nib_args.unique_kota)
    /\ kecamatan_codes' = AdminCodes(nib_args.unique_kecamatan)
    /\ pc' = "nib"
    /\ UNCHANGED <<colorizerVars, notNibVars, nib_args, nib>>

\* a call of generate_nib
GenerateNib ==
    /\ pc = "nib"
    /\ nib' = generate_nib(nib_args.kota, nib_args.kecamatan,
                           nib_args.centroid_x, nib_args.centroid_y)
    /\ pc' = "nib_done"
    /\ UNCHANGED <<colorizerVars, notNibVars, kota_codes, kecamatan_codes, nib_args>>

NextNib == create_admin_codes \/ GenerateNib

SpecNib == InitNib /\ [][NextNib]_vars

\* C25: the string generate_nib returns has exactly 14 characters, all of
\* them decimal digits.
C25_NibHasFourteenDigits ==
    pc = "nib_done" =>
        /\ Len(nib) = 14
        /\ \A i \in DOMAIN nib : nib[i] \in Range(DigitChars)

(***************************************************************************)
(* main.py: the pipeline run for every complete file set                   *)
(***************************************************************************)

MaxSets == 2
MaxTxtLines == 2

\* the lines a coordinate file can hold: a number such as '612345,888',
\* text float() rejects, or a blank line
TxtLineKinds == {"number", "text", "blank"}

TxtFiles == UNION {[1..n -> TxtLineKinds] : n \in 0..MaxTxtLines}

\* read_and_convert_txt, lines 107-148: the numbers of the file, in order
read_and_convert_txt(txt) == SelectSeq(txt, LAMBDA line : line = "number")

\* the lists find_complete_sets can return, lines 91-105: one entry per
\* folder holding an .obj, a .txt and a .geojson file
FileSets == UNION {[1..n -> [txt : TxtFiles]] : n \in 0..MaxSets}

\* the descriptions of the five commands, lines 118-160
Steps == <<"Building separation", "Object translation to UTM coordinates",
           "MTL generation", "OBJ to CityGML LOD2 conversion",
           "CityGML file merging">>

\* the working directory each command writes, lines 123, 131, 150
OutputDirectory == <<"obj", "translated", "translated", "citygml", "citygml">>

\* 0 and 1 stand for the return codes of a command, -1 is returned when
\* sp.run itself raised (line 65)
ReturnCodes == {0, 1, -1}

\* OutputCapture after __enter__, lines 18-24
Capturing == [log_open |-> TRUE, redirected |-> TRUE]

Event(k, name, event) == [file_set |-> k, step |-> name, event |-> event]

InitMain ==
    /\ ColorizerIdle
    /\ NotMainIdle
    /\ file_set \in FileSets
    /\ set_index = 0
    /\ step_no = 0
    /\ step_log = <<>>
    /\ returncode = NoReturnCode
    /\ directories = {}
    /\ output_capture = NotCapturing
    /\ pbar = NoBar
    /\ final_summary = FALSE
    /\ raised = NoException
    /\ pc = "main"

\* main, lines 68-89: the progress bar is created and the capture entered
StartMain ==
    /\ pc = "main"
    /\ pbar' = [n |-> 0, total |-> Len(file_set), closed |-> FALSE]
    /\ output_capture' = Capturing
    /\ pc' = "file_set"
    /\ UNCHANGED <<colorizerVars, notMainVars, file_set, set_index, step_no, step_log,
                   returncode, directories, final_summary, raised>>

\* lines 91-117: the loop takes the next file set; line 120 needs coord[0]
\* and coord[1]
BeginFileSet ==
    /\ pc = "file_set"
    /\ set_index < Len(file_set)
    /\ Len(read_and_convert_txt(file_set[set_index + 1].txt)) >= 2
    /\ set_index' = set_index + 1
    /\ step_no' = 1
    /\ directories' = {}
    /\ pc' = "start"
    /\ UNCHANGED <<colorizerVars, notMainVars, file_set, step_log, returncode,
                   output_capture, pbar, final_summary, raised>>

\* lines 95 and 120: coord has fewer than two numbers, coord[0] or coord[1]
\* raises IndexError; OutputCapture.__exit__ runs, lines 26-29, and the
\* exception leaves main
RaiseIndexError ==
    /\ pc = "file_set"
    /\ set_index < Len(file_set)
    /\ Len(read_and_convert_txt(file_set[set_index + 1].txt)) < 2
    /\ set_index' = set_index + 1
    /\ raised' = "IndexError"
    /\ output_capture' = NotCapturing
    /\ pc' = "main_exit"
    /\ UNCHANGED <<colorizerVars, notMainVars, file_set, step_no, step_log, returncode,
                   directories, pbar, final_summary>>

\* run_subprocess_with_capture, lines 36-49: the command is started
StartStep ==
    /\ pc = "start"
    /\ step_log' = Append(step_log, Event(set_index, Steps[step_no], "start"))
    /\ pc' = "running"
    /\ UNCHANGED <<colorizerVars, notMainVars, file_set, set_index, step_no, returncode,
                   directories, output_capture, pbar, final_summary, raised>>

\* lines 118-160: main discards the value run_subprocess_with_capture
\* returns and goes on to the next step
AfterReturnMutAbort(step, code) == IF code # 0 THEN Len(Steps) + 1 ELSE step + 1

AfterReturn(step, code) == step + 1

\* run_subprocess_with_capture, lines 43-65: sp.run returns or raises; the
\* command may have written its output directory
ReturnStep ==
    /\ pc = "running"
    /\ \E code \in ReturnCodes, written \in BOOLEAN :
        /\ code = -1 => ~written
        /\ returncode' = code
        /\ directories' = IF written THEN directories \cup {OutputDirectory[step_no]}
                          ELSE directories
        /\ step_no' = AfterReturn(step_no, code)
    /\ step_log' = Append(step_log, Event(set_index, Steps[step_no], "return"))
    /\ pc' = IF step_no' > Len(Steps) THEN "cleanup" ELSE "start"
    /\ UNCHANGED <<colorizerVars, notMainVars, file_set, set_index, output_capture, pbar,
                   final_summary, raised>>

\* lines 163-176, delete_directories of cacheHandling.py, lines 18-27: every
\* directory that exists is removed unless rmtree fails, which is only
\* printed
Cleanup ==
    /\ pc = "cleanup"
    /\ step_log' = step_log \o <<Event(set_index, "Final cleanup", "start"),
                                 Event(set_index, "Final cleanup", "return")>>
    /\ directories' \in SUBSET directories
    /\ pbar' = [pbar EXCEPT !.n = @ + 1]
    /\ step_no' = 0
    /\ pc' = "file_set"
    /\ UNCHANGED <<colorizerVars, notMainVars, file_set, set_index, returncode,
                   output_capture, final_summary, raised>>

\* lines 178-191: the loop is over; the totals are logged, the capture is
\* left, the bar closed and the summary printed
FinishMain ==
    /\ pc = "file_set"
    /\ set_index = Len(file_set)
    /\ Len(file_set) # 0
    /\ output_capture' = NotCapturing
    /\ pbar' = [pbar EXCEPT !.closed = TRUE]
    /\ final_summary' = TRUE
    /\ pc' = "main_exit"
    /\ UNCHANGED <<colorizerVars, notMainVars, file_set, set_index, step_no, step_log,
                   returncode, directories, raised>>

\* line 182: end/len(file_set) with an empty list raises ZeroDivisionError;
\* OutputCapture.__exit__ runs, lines 26-29, and the exception leaves main
RaiseZeroDivisionError ==
    /\ pc = "file_set"
    /\ set_index = Len(file_set)
    /\ Len(file_set) = 0
    /\ raised' = "ZeroDivisionError"
    /\ output_capture' = NotCapturing
    /\ pc' = "main_exit"
    /\ UNCHANGED <<colorizerVars, notMainVars, file_set, set_index, step_no, step_log,
                   returncode, directories, pbar, final_summary>>

NextMain ==
    \/ StartMain
    \/ BeginFileSet
    \/ RaiseIndexError
    \/ StartStep
    \/ ReturnStep
    \/ Cleanup
    \/ FinishMain
    \/ RaiseZeroDivisionError

SpecMain == InitMain /\ [][NextMain]_vars

\* the n-th entry of a log in which every file set goes through the five
\* commands and the cleanup, each started after the one before has returned
ExpectedEvent(n) ==
    LET order == <<"Building separation", "Object translation to UTM coordinates",
                   "MTL generation", "OBJ to CityGML LOD2 conversion",
                   "CityGML file merging", "Final cleanup">>
        at == (n - 1) % (2 * Len(order))
    IN  [file_set |-> ((n - 1) \div (2 * Len(order))) + 1,
         step |-> order[(at \div 2) + 1],
         event |-> IF at % 2 = 0 THEN "start" ELSE "return"]

\* C27: for every file set the steps building separation, translation, MTL
\* generation, conversion, merge and cleanup are started in that order, each
\* after the previous one has returned, whatever the return codes were, and
\* a file set is started only after the cleanup of the one before.
C27_StepsInOrderWhateverTheReturnCode ==
    \A n \in DOMAIN step_log : step_log[n] = ExpectedEvent(n)

\* the translation of the second file set is running although the building
\* separation before it returned a non-zero code
C27_Witness ==
    /\ pc = "running"
    /\ set_index = 2
    /\ step_no = 2
    /\ returncode # 0
    /\ Len(step_log) = 15

\* C30: when main is over it has raised nothing, the log is closed,
\* stdout and stderr are restored, the progress bar is closed and the final
\* summary has been printed, for every list of file sets, the empty one
\* included.
C30_MainCompletesWithoutRaising ==
    pc = "main_exit" =>
        /\ raised = NoException
        /\ output_capture = NotCapturing
        /\ pbar.closed
        /\ final_summary

====
